---- MODULE Spec2Model ----
(***************************************************************************)
(* Mention-dispatch engine of tagall-bot (src/bot.js, lines 1-1158): the   *)
(* "message" middleware chain that records the sender, gates a tag command *)
(* (group type, admin restriction, per-chat cooldown), resolves the        *)
(* recipients and sends them in chunks with throttle back-off and pacing.  *)
(*                                                                         *)
(* A handler invocation is an async function: it runs without interruption *)
(* up to its next await, so each action below is one such run.  Several    *)
(* invocations interleave at their awaits.  Time is Date.now() in          *)
(* milliseconds; it advances in steps of TickMs.                           *)
(***************************************************************************)
EXTENDS Integers, Sequences, FiniteSets, TLC

VARIABLES
  now,                \* Date.now(), ms
  tagallLastRun,      \* chat -> ms of the last setCooldown, 0 = no entry
  chat_members,       \* chat -> rows in rowid order
  chat_settings,      \* chat -> "absent" | "0" | "1"  (tagall_only_admins)
  chat_teams,         \* set of <<chat, slug>>
  chat_team_members,  \* set of <<chat, slug, user_id>>
  handler,            \* invocation -> state of the dispatch handler
  sent,               \* log of ctx.telegram.sendMessage calls (mention chunks)
  replies,            \* log of ctx.reply calls
  adminInputState,    \* the Map of pending text inputs: set of entries, one per user
  admins,             \* Telegram's side: set of <<chat, user>> that are administrators;
                      \* followed in SpecAdmin, elsewhere the answer of getChatMember
                      \* is an input of the step
  answered,           \* the answerCbQuery text of the latest member add or remove
                      \* that passed the admin lookup; "thrown" when the handler
                      \* threw before it answered
  env                 \* process.env as the process was started with: the texts of
                      \* TAGALL_COOLDOWN_SEC and TAGALL_DELAY_MS, "unset" for none

storeVars == <<chat_members, chat_settings, chat_teams, chat_team_members>>
menuVars == <<adminInputState, admins, answered, env>>
vars == <<now, tagallLastRun, chat_members, chat_settings, chat_teams,
          chat_team_members, handler, sent, replies, adminInputState, admins,
          answered, env>>

----------------------------------------------------------------------------
\* Configuration (environment, with the defaults replaced by small values)

MAX_USERS == 4
CHUNK == 2
DELAY_MS == 1200
COOLDOWN_SEC == 2

\* Bounds of the model
TickMs == 1000         \* clock granularity
MaxTicks == 4          \* the clock stops after this many ticks
MaxThrottle == 1       \* throttle answers per invocation
MaxRetryAfter == 1     \* largest retry_after, seconds

\* handler invocations: one in Spec, both (interleaved) in SpecConc
Invs == {1, 2}
Solo == {1}

\* the clock at the first modelled event, and the time of a dispatch in g1
\* that was admitted before it (half a second off the ticks, or on the tick)
StartMs == 1000
EarlierRunMs == 500

Chats == {"g1", "g2", "p1"}

ChatType(c) ==
  CASE c = "g1" -> "group"
    [] c = "g2" -> "supergroup"
    [] OTHER    -> "private"

BotUser == 9
Senders == {1, BotUser}
IsBotUser(u) == u = BotUser

Min(a, b) == IF a <= b THEN a ELSE b

Max(a, b) == IF a >= b THEN a ELSE b

\* Configuration (bot.js:13-16).  A number of JavaScript is its value or NaN.
NaN == [nan |-> TRUE, n |-> 0]

Num(n) == [nan |-> FALSE, n |-> n]

\* the texts an environment variable of the model can hold
EnvTexts == {"unset", "0", "2", "-5", "1200", "soon"}

\* parseInt(text, 10); parseInt(undefined, 10) is NaN
parseInt(text) ==
  CASE text = "0" -> Num(0)
    [] text = "2" -> Num(2)
    [] text = "-5" -> Num(-5)
    [] text = "1200" -> Num(1200)
    [] OTHER -> NaN

\* x || d for a number x: NaN and 0 are falsy
Or(x, d) == IF x.nan \/ x.n = 0 THEN d ELSE x.n

\* const COOLDOWN_SEC = Math.max(0, parseInt(process.env.TAGALL_COOLDOWN_SEC, 10) || 60)
ConfigCooldownSec(e) == Max(0, Or(parseInt(e.TAGALL_COOLDOWN_SEC), 60))

\* const DELAY_MS = Math.max(0, parseInt(process.env.TAGALL_DELAY_MS, 10) || 1200)
ConfigDelayMs(e) == Max(0, Or(parseInt(e.TAGALL_DELAY_MS), 1200))

\* the environment that gives the configuration of the model
ModelEnv == [TAGALL_COOLDOWN_SEC |-> "2", TAGALL_DELAY_MS |-> "1200"]

----------------------------------------------------------------------------
\* Store

Row(u, t) == [user_id |-> u, is_bot |-> IsBotUser(u), first_seen |-> t, last_seen |-> t]

HasRow(rows, u) == \E k \in 1..Len(rows) : rows[k].user_id = u

\* fault: INSERT OR REPLACE, which deletes the old row and inserts a new one
upsertMember_Replace(rows, u, t) ==
  LET Other(r) == r.user_id # u
  IN  Append(SelectSeq(rows, Other), Row(u, t))

\* upsertMemberStmt: insert, or on conflict overwrite is_bot and last_seen
upsertMember(rows, u, t) ==
  IF HasRow(rows, u)
  THEN [k \in 1..Len(rows) |->
          IF rows[k].user_id = u
          THEN [rows[k] EXCEPT !.is_bot = IsBotUser(u), !.last_seen = t]
          ELSE rows[k]]
  ELSE Append(rows, Row(u, t))

storeUser(cm, chatId, u, t) ==
  [cm EXCEPT ![chatId] = upsertMember(cm[chatId], u, t)]

\* fault: rows with equal first_seen are ordered by last_seen
RECURSIVE InsertByFirstSeen_LastSeen(_, _)
InsertByFirstSeen_LastSeen(sorted, r) ==
  IF sorted = <<>> THEN <<r>>
  ELSE IF \/ Head(sorted).first_seen < r.first_seen
          \/ /\ Head(sorted).first_seen = r.first_seen
             /\ Head(sorted).last_seen <= r.last_seen
       THEN <<Head(sorted)>> \o InsertByFirstSeen_LastSeen(Tail(sorted), r)
       ELSE <<r>> \o sorted

\* ORDER BY first_seen ASC: insertion sort that keeps rowid order among ties
RECURSIVE InsertByFirstSeen(_, _)
InsertByFirstSeen(sorted, r) ==
  IF sorted = <<>> THEN <<r>>
  ELSE IF Head(sorted).first_seen <= r.first_seen
       THEN <<Head(sorted)>> \o InsertByFirstSeen(Tail(sorted), r)
       ELSE <<r>> \o sorted

RECURSIVE OrderByFirstSeen(_)
OrderByFirstSeen(rows) ==
  IF rows = <<>> THEN <<>>
  ELSE InsertByFirstSeen(OrderByFirstSeen(SubSeq(rows, 1, Len(rows) - 1)), rows[Len(rows)])

\* fault: the filter "is_bot = 0" is missing
IsNotBot_All(r) == TRUE

\* WHERE is_bot = 0
IsNotBot(r) == ~r.is_bot

UserIds(rows) == [k \in 1..Len(rows) |-> rows[k].user_id]

\* fault: the cap lets one row more through
Limit_OneMore(s, n) == SubSeq(s, 1, Min(Len(s), n + 1))

\* LIMIT ?
Limit(s, n) == SubSeq(s, 1, Min(Len(s), n))

selectMembers(cm, chatId, limit) ==
  UserIds(Limit(OrderByFirstSeen(SelectSeq(cm[chatId], IsNotBot)), limit))

\* fault: the team query carries the cap of the roster query
selectTeamMembers_Capped(cm, tm, chatId, slug) ==
  LET InTeam(r) == <<chatId, slug, r.user_id>> \in tm
  IN  UserIds(Limit(OrderByFirstSeen(SelectSeq(cm[chatId], InTeam)), MAX_USERS))

selectTeamMembers(cm, tm, chatId, slug) ==
  LET InTeam(r) == <<chatId, slug, r.user_id>> \in tm
  IN  UserIds(OrderByFirstSeen(SelectSeq(cm[chatId], InTeam)))

\* fault: a chat without a settings row counts as unrestricted
getTagallOnlyAdmins_DefaultOff(cs, chatId) ==
  IF cs[chatId] = "absent" THEN FALSE ELSE cs[chatId] # "0"

\* row == null ? true : row.tagall_only_admins !== 0
getTagallOnlyAdmins(cs, chatId) ==
  IF cs[chatId] = "absent" THEN TRUE ELSE cs[chatId] # "0"

----------------------------------------------------------------------------
\* Cooldown

\* fault: Math.floor in place of Math.ceil
CeilDiv_Floor(a, b) == a \div b

\* Math.ceil(a / b) for a >= 0, b > 0
CeilDiv(a, b) == (a + b - 1) \div b

\* fault: the map is read with a key it was never written with
checkCooldown_Never(lastRun, chatId, t) == [null |-> TRUE, waitSec |-> 0]

\* fault: the cooldown in seconds is compared with milliseconds
checkCooldown_Units(lastRun, chatId, t) ==
  IF COOLDOWN_SEC <= 0 \/ lastRun[chatId] = 0 THEN [null |-> TRUE, waitSec |-> 0]
  ELSE IF t - lastRun[chatId] < COOLDOWN_SEC
       THEN [null |-> FALSE, waitSec |-> COOLDOWN_SEC]
       ELSE [null |-> TRUE, waitSec |-> 0]

\* fault: the latest stamp of any chat is consulted
checkCooldown_AnyChat(lastRun, chatId, t) ==
  LET last == CHOOSE x \in {lastRun[c] : c \in DOMAIN lastRun} :
                \A c \in DOMAIN lastRun : lastRun[c] <= x
  IN  IF COOLDOWN_SEC <= 0 \/ last = 0 THEN [null |-> TRUE, waitSec |-> 0]
      ELSE IF t - last < COOLDOWN_SEC * 1000
           THEN [null |-> FALSE, waitSec |-> (COOLDOWN_SEC * 1000 - (t - last) + 999) \div 1000]
           ELSE [null |-> TRUE, waitSec |-> 0]

\* the body of checkCooldown for a cooldown of cooldownSec seconds: null, or
\* the whole seconds still to wait
checkCooldownOf(cooldownSec, lastRun, chatId, t) ==
  IF cooldownSec <= 0 THEN [null |-> TRUE, waitSec |-> 0]
  ELSE IF lastRun[chatId] = 0 THEN [null |-> TRUE, waitSec |-> 0]
  ELSE IF t - lastRun[chatId] < cooldownSec * 1000
       THEN [null |-> FALSE,
             waitSec |-> CeilDiv(cooldownSec * 1000 - (t - lastRun[chatId]), 1000)]
       ELSE [null |-> TRUE, waitSec |-> 0]

\* checkCooldown
checkCooldown(lastRun, chatId, t) == checkCooldownOf(COOLDOWN_SEC, lastRun, chatId, t)

\* fault: the key is lost and every chat is stamped
setCooldown_AllChats(lastRun, chatId, t) == [c \in DOMAIN lastRun |-> t]

\* fault: the stamp is not written
setCooldown_Lost(lastRun, chatId, t) == lastRun

setCooldown(lastRun, chatId, t) == [lastRun EXCEPT ![chatId] = t]

----------------------------------------------------------------------------
\* Command parsing and target message

NoToken == "-"
Words == {"tagall", "TagAll", "Friends", "nosuch", NoToken}
\* and a word that begins with the reserved name
AllWords == Words \cup {"tagallx"}

\* String.prototype.toLowerCase / SQL LOWER on the words of the model
Lower(w) ==
  CASE w = "TagAll"  -> "tagall"
    [] w = "Friends" -> "friends"
    [] w = "Crew" -> "crew"
    [] w = "Solo"    -> "solo"
    [] OTHER         -> w

\* match[1] of /\/(tagall|[\w]+)(@\w+)?/gi on the first "/word" of the text:
\* the alternation tries the literal tagall first, ignoring case, and the
\* pattern has nothing after it that must match, so a word that starts with
\* tagall is captured as its first six letters; any other word is captured
\* whole by [\w]+
RegexWord(w) ==
  CASE w = "tagallx" -> "tagall"
    [] OTHER         -> w

NoCommand == [type |-> "none", slug |-> ""]

\* parseTagCommand: the results the lookup can give (LIMIT 1 without ORDER BY
\* returns any one of the matching rows)
parseTagCommand(word, chatId, teams) ==
  IF word = NoToken THEN {NoCommand}
  ELSE LET cmd == Lower(RegexWord(word))
           rows == {s \in {tm[2] : tm \in teams} :
                      <<chatId, s>> \in teams /\ Lower(s) = Lower(cmd)}
       IN  IF cmd = "tagall" THEN {[type |-> "tagall", slug |-> ""]}
           ELSE IF rows # {} THEN {[type |-> "team", slug |-> s] : s \in rows}
           ELSE {NoCommand}

\* fault: the text is not looked at
messageHasExtraContent_MediaOnly(msg, commandStr) == msg.media

\* messageHasExtraContent(ctx, commandStr): media, or text left after every
\* "/commandStr" (ignoring case) is removed.  msg.rest says that the text holds
\* more than its "/word"; of the word itself something is left when it is
\* longer than commandStr
messageHasExtraContent(msg, commandStr) ==
  msg.media \/ msg.rest \/ Lower(msg.word) # Lower(commandStr)

\* getTargetMessageId: 0 stands for null
getTargetMessageId(msg, commandInfo) ==
  LET cmd == IF commandInfo.type = "tagall" THEN "tagall" ELSE commandInfo.slug
  IN  IF msg.reply_to_message # 0 THEN msg.reply_to_message
      ELSE IF messageHasExtraContent(msg, cmd) THEN msg.message_id
      ELSE 0

isGroupChat(c) == ChatType(c) \in {"group", "supergroup"}

\* isAdmin: the status getChatMember answers, "error" when the call throws
Statuses == {"creator", "administrator", "member", "error"}
\* fault: a failed lookup counts as admin
isAdmin_FailOpen(status) == status \in {"administrator", "creator", "error"}

isAdmin(status) == status = "administrator" \/ status = "creator"

RepliedId == 50
OwnId(inv) == 100 + inv

Messages(inv) ==
  [word : AllWords \cup {"Crew", "crew"}, reply_to_message : {0, RepliedId}, media : BOOLEAN,
   rest : BOOLEAN, message_id : {OwnId(inv)}]

----------------------------------------------------------------------------
\* sendMentionChunks

\* for (i = 0; i < members.length; i += size) chunks.push(members.slice(i, i + size))
RECURSIVE ChunksOf(_, _)
ChunksOf(members, size) ==
  IF members = <<>> THEN <<>>
  ELSE <<SubSeq(members, 1, Min(size, Len(members)))>>
       \o ChunksOf(SubSeq(members, size + 1, Len(members)), size)

\* fault: slice(i, i + CHUNK + 1) with a stride to match
Chunks_Wide(members) == ChunksOf(members, CHUNK + 1)

Chunks(members) == ChunksOf(members, CHUNK)

\* fault: the "i--" before "continue" is missing
IndexAfterBackoff_Skip(i) == i + 1

\* the loop index after the back-off sleep: "i--; continue" runs the loop's i++
IndexAfterBackoff(i) == (i - 1) + 1

\* fault: the loop does not advance after a delivered chunk
IndexAfterPacing_Same(i) == i

\* the loop index after the pacing sleep: the loop's i++
IndexAfterPacing(i) == i + 1

\* fault: the pacing sleep also follows the last chunk
PacingDue_Always(i, n) == i < n

\* "if (i < chunks.length - 1) await sleep(DELAY_MS)"
PacingDue(i, n) == i < n - 1

\* fault: the one second margin is missing
BackoffMs_NoMargin(retryAfter) == retryAfter * 1000

\* sleep((retryAfter + 1) * 1000)
BackoffMs(retryAfter) == (retryAfter + 1) * 1000

\* what sendMessage rejects with: an error without parameters.retry_after,
\* or with a retry_after of 0 or more seconds
TransportErrors ==
  {[has_retry_after |-> FALSE, retry_after |-> 0]}
    \cup {[has_retry_after |-> TRUE, retry_after |-> r] : r \in 0..MaxRetryAfter}

\* fault: every failed send is retried
IsThrottle_Always(e) == TRUE

\* fault: a retry_after of 0 counts as a throttle
IsThrottle_Present(e) == e.has_retry_after

\* "const retryAfter = e?.parameters?.retry_after; if (retryAfter)": undefined
\* and 0 are falsy
IsThrottle(e) == e.has_retry_after /\ e.retry_after # 0

----------------------------------------------------------------------------
\* Text of a chunk.  A JavaScript string is the sequence of its characters;
\* null is the one-element sequence Null.

Null == <<"null">>

\* Boolean(s) of a string or null
Truthy(s) == s # Null /\ s # <<>>

RECURSIVE Join(_, _)
Join(parts, sep) ==
  IF parts = <<>> THEN <<>>
  ELSE IF Len(parts) = 1 THEN parts[1]
  ELSE parts[1] \o sep \o Join(Tail(parts), sep)

RECURSIVE TrimStart(_)
TrimStart(s) == IF s # <<>> /\ Head(s) = " " THEN TrimStart(Tail(s)) ELSE s

RECURSIVE TrimEnd(_)
TrimEnd(s) ==
  IF s # <<>> /\ s[Len(s)] = " " THEN TrimEnd(SubSeq(s, 1, Len(s) - 1)) ELSE s

Trim(s) == TrimEnd(TrimStart(s))

\* `${n}` of a non-negative integer
RECURSIVE Digits(_)
Digits(n) ==
  LET d == <<"0", "1", "2", "3", "4", "5", "6", "7", "8", "9">>[(n % 10) + 1]
  IN  IF n < 10 THEN <<d>> ELSE Digits(n \div 10) \o <<d>>

LowerCase == <<"a", "b", "c", "d", "e", "f", "g", "h", "i", "j", "k", "l", "m",
               "n", "o", "p", "q", "r", "s", "t", "u", "v", "w", "x", "y", "z">>
UpperCase == <<"A", "B", "C", "D", "E", "F", "G", "H", "I", "J", "K", "L", "M",
               "N", "O", "P", "Q", "R", "S", "T", "U", "V", "W", "X", "Y", "Z">>

toUpperCase(c) ==
  IF \E k \in 1..26 : LowerCase[k] = c
  THEN UpperCase[CHOOSE k \in 1..26 : LowerCase[k] = c] ELSE c

toLowerCase(c) ==
  IF \E k \in 1..26 : UpperCase[k] = c
  THEN LowerCase[CHOOSE k \in 1..26 : UpperCase[k] = c] ELSE c

\* s.replaceAll(c, ent), left to right
RECURSIVE replaceAll(_, _, _)
replaceAll(s, c, ent) ==
  IF s = <<>> THEN <<>>
  ELSE (IF Head(s) = c THEN ent ELSE <<Head(s)>>) \o replaceAll(Tail(s), c, ent)

\* fault: the pass for the double quote is missing
escapeHtml_NoQuote(s) ==
  replaceAll(replaceAll(replaceAll(s,
    "&", <<"&", "a", "m", "p", ";">>),
    "<", <<"&", "l", "t", ";">>),
    ">", <<"&", "g", "t", ";">>)

\* four passes in the order of the source, the ampersand first
escapeHtml(s) ==
  replaceAll(replaceAll(replaceAll(replaceAll(s,
    "&", <<"&", "a", "m", "p", ";">>),
    "<", <<"&", "l", "t", ";">>),
    ">", <<"&", "g", "t", ";">>),
    "\"", <<"&", "q", "u", "o", "t", ";">>)

\* fault: the joined name is not trimmed
displayName_NoTrim(u) ==
  LET full == Join(SelectSeq(<<u.first_name, u.last_name>>, Truthy), <<" ">>)
  IN  IF full # <<>> THEN full
      ELSE IF Truthy(u.username) THEN <<"@">> \o u.username
      ELSE <<"i", "d", ":">> \o Digits(u.user_id)

displayName(u) ==
  LET full == Trim(Join(SelectSeq(<<u.first_name, u.last_name>>, Truthy), <<" ">>))
  IN  IF full # <<>> THEN full
      ELSE IF Truthy(u.username) THEN <<"@">> \o u.username
      ELSE <<"i", "d", ":">> \o Digits(u.user_id)

\* <a href="tg://user?id=ID">LABEL</a>: the two interpolated parts
mentionHtml(u) == [id |-> u.user_id, label |-> escapeHtml(displayName(u))]

\* the label of a dispatch without a team is the Russian word for "all",
\* written here in Latin letters
teamLabelForMessage(slug) ==
  IF ~Truthy(slug) THEN <<"V", "s", "e">>
  ELSE <<toUpperCase(Head(slug))>> \o [k \in 1..(Len(slug) - 1) |-> toLowerCase(slug[k + 1])]

\* the characters of a slug of the model; "" is the null of teamSlug = null
SlugChars(slug) ==
  CASE slug = "" -> Null
    [] slug = "friends" -> <<"f", "r", "i", "e", "n", "d", "s">>
    [] OTHER -> <<"t">>

\* the columns user_id, first_name, last_name, username of the roster row of
\* user u, as storeUser copied them from the Telegram user object: every user
\* of the model reports the same names in each update
MemberRow(u) ==
  CASE u = 1 -> [user_id |-> u, first_name |-> <<"A", "l">>, last_name |-> <<"O", "b">>,
                 username |-> Null]
    [] u = 2 -> [user_id |-> u, first_name |-> <<"<", "b", ">">>, last_name |-> Null,
                 username |-> <<"b", "o", "b">>]
    [] u = 3 -> [user_id |-> u, first_name |-> <<" ">>, last_name |-> Null,
                 username |-> <<"c", "_", "d">>]
    [] u = 4 -> [user_id |-> u, first_name |-> <<>>, last_name |-> Null, username |-> Null]
    [] u = 5 -> [user_id |-> u, first_name |-> <<"R", "&", "D">>, last_name |-> <<"\"">>,
                 username |-> Null]
    [] OTHER -> [user_id |-> u, first_name |-> <<"B", "o", "t">>, last_name |-> Null,
                 username |-> <<"a", "_", "b", "o", "t">>]

\* the trailing line "\nLABEL, ..." of every chunk: its interpolated part
Suffix(teamSlug) == escapeHtml(teamLabelForMessage(SlugChars(teamSlug)))

\* fault: the trailing line is added to the first chunk only
SendText_FirstOnly(chunks, i, suffix) ==
  [mentions |-> [k \in 1..Len(chunks[i + 1]) |-> mentionHtml(MemberRow(chunks[i + 1][k]))],
   suffix |-> IF i = 0 THEN suffix ELSE <<>>]

\* text = chunks[i].map(mentionHtml).join(MENTION_SEPARATOR) + suffix
SendText(chunks, i, suffix) ==
  [mentions |-> [k \in 1..Len(chunks[i + 1]) |-> mentionHtml(MemberRow(chunks[i + 1][k]))],
   suffix |-> suffix]

----------------------------------------------------------------------------
\* Handler state

NoMessage ==
  [word |-> NoToken, reply_to_message |-> 0, media |-> FALSE, rest |-> FALSE, message_id |-> 0]

\* msg is ctx.message of the update the handler was called with
Idle == [pc |-> "idle", chat |-> "-", msg |-> NoMessage, word |-> NoToken,
         type |-> "none", slug |-> "", target |-> 0,
         restricted |-> FALSE, role |-> "-", members |-> <<>>, i |-> 0,
         sleep |-> "-", since |-> 0, ms |-> 0, outcome |-> "-"]

\* index in a log of the call of inv that is still awaited
Pending(log, inv) ==
  CHOOSE k \in 1..Len(log) : log[k].inv = inv /\ log[k].res = "pending"

ReplyEntry(inv, h, kind, waitSec) ==
  [inv |-> inv, chat |-> h.chat, kind |-> kind, waitSec |-> waitSec, res |-> "pending"]

SendEntry(inv, h, i) ==
  [inv |-> inv, chat |-> h.chat, i |-> i, users |-> Chunks(h.members)[i + 1],
   reply_to |-> h.target, team |-> h.slug, res |-> "pending", retry_after |-> 0]

\* await ctx.reply(kind)
CallReply(inv, h, kind, waitSec) ==
  /\ handler' = [handler EXCEPT ![inv] = [h EXCEPT !.pc = "reply"]]
  /\ replies' = Append(replies, ReplyEntry(inv, h, kind, waitSec))

\* await ctx.telegram.sendMessage(chunks[i])
CallSend(inv, h, i) ==
  /\ handler' = [handler EXCEPT ![inv] = [h EXCEPT !.pc = "send", !.i = i]]
  /\ sent' = Append(sent, SendEntry(inv, h, i))

\* the handler returns (or its exception leaves it)
Return(inv, h, outcome) ==
  handler' = [handler EXCEPT ![inv] = [h EXCEPT !.pc = "done", !.outcome = outcome]]

\* bot.js:362-385: cooldown check, recipients, cooldown stamp, first send;
\* runs without an await in between.  cm is the roster as this run sees it.
Dispatch(inv, h, cm) ==
  LET waitSec == checkCooldown(tagallLastRun, h.chat, now)
      members == IF h.type = "tagall"
                 THEN selectMembers(cm, h.chat, MAX_USERS)
                 ELSE selectTeamMembers(cm, chat_team_members, h.chat, h.slug)
  IN  IF ~waitSec.null
      THEN /\ CallReply(inv, h, "cooldown", waitSec.waitSec)
           /\ UNCHANGED <<tagallLastRun, sent>>
      ELSE IF members = <<>>
      THEN /\ CallReply(inv, h, IF h.type = "tagall" THEN "no_members" ELSE "team_empty", 0)
           /\ UNCHANGED <<tagallLastRun, sent>>
      ELSE /\ tagallLastRun' = setCooldown(tagallLastRun, h.chat, now)
           /\ CallSend(inv, [h EXCEPT !.members = members], 0)
           /\ UNCHANGED replies

\* adminInputState.get(userId), NoInput for undefined
NoInput == [user |-> 0, step |-> "none", chatId |-> "-", slug |-> ""]

adminInputGet(state, userId) ==
  IF \E e \in state : e.user = userId
  THEN CHOOSE e \in state : e.user = userId
  ELSE NoInput

\* adminInputState.set(userId, {chatId, step, slug})
adminInputSet(state, userId, step, chatId, slug) ==
  {e \in state : e.user # userId}
    \cup {[user |-> userId, step |-> step, chatId |-> chatId, slug |-> slug]}

\* adminInputState.delete(userId)
adminInputDelete(state, userId) == {e \in state : e.user # userId}

\* fault: every message is passed on
PassedOn_Always(state, msg) == TRUE

\* bot.js:269, negated: the message goes to next() when the sender has no
\* pending input or the message has no text; the words of a media message
\* are its caption
PassedOn(state, msg) == state = NoInput \/ msg.media

\* An update with a message arrives: bot.js:264-329 stores the sender and,
\* the sender having no pending text input or the message no text, passes on;
\* bot.js:339-361 runs up to the first await.
Receive(inv, chat, from, msg) ==
  /\ PassedOn(adminInputGet(adminInputState, from), msg)
  /\ handler[inv].pc = "idle"
  /\ \A j \in Invs : j < inv => handler[j].pc # "idle"
  /\ LET cm == storeUser(chat_members, chat, from, now)
     IN
     /\ chat_members' = cm
     /\ UNCHANGED <<now, chat_settings, chat_teams, chat_team_members>>
     /\ \E commandInfo \in parseTagCommand(msg.word, chat, chat_teams) :
          LET h0 == [handler[inv] EXCEPT !.chat = chat, !.word = msg.word, !.msg = msg]
              h  == [h0 EXCEPT !.type = commandInfo.type, !.slug = commandInfo.slug,
                               !.target = getTargetMessageId(msg, commandInfo),
                               !.restricted = getTagallOnlyAdmins(chat_settings, chat)]
          IN  IF ~isGroupChat(chat) \/ commandInfo.type = "none"
              THEN /\ Return(inv, h0, "next")
                   /\ UNCHANGED <<tagallLastRun, sent, replies>>
              ELSE IF h.target = 0
              THEN /\ CallReply(inv, h, "usage", 0)
                   /\ UNCHANGED <<tagallLastRun, sent>>
              ELSE IF h.restricted
              THEN /\ handler' = [handler EXCEPT ![inv] = [h EXCEPT !.pc = "isAdmin"]]
                   /\ UNCHANGED <<tagallLastRun, sent, replies>>
              ELSE Dispatch(inv, h, cm)
  /\ UNCHANGED menuVars

\* fault: the cooldown is checked before the status of the invoker
IsAdminReturns_CooldownFirst(inv, status) ==
  /\ handler[inv].pc = "isAdmin"
  /\ LET h == [handler[inv] EXCEPT !.role = status]
         waitSec == checkCooldown(tagallLastRun, h.chat, now)
     IN  IF ~waitSec.null
         THEN /\ CallReply(inv, h, "cooldown", waitSec.waitSec)
              /\ UNCHANGED <<tagallLastRun, sent>>
         ELSE IF ~isAdmin(status)
         THEN /\ CallReply(inv, h, "permission", 0)
              /\ UNCHANGED <<tagallLastRun, sent>>
         ELSE Dispatch(inv, h, chat_members)
  /\ UNCHANGED <<now, storeVars>>
  /\ UNCHANGED menuVars

\* getChatMember answers: bot.js:231-239, then 356-361
IsAdminReturns(inv, status) ==
  /\ handler[inv].pc = "isAdmin"
  /\ LET h == [handler[inv] EXCEPT !.role = status]
     IN  IF ~isAdmin(status)
         THEN /\ CallReply(inv, h, "permission", 0)
              /\ UNCHANGED <<tagallLastRun, sent>>
         ELSE Dispatch(inv, h, chat_members)
  /\ UNCHANGED <<now, storeVars>>
  /\ UNCHANGED menuVars

\* ctx.reply resolves or rejects.  The usage hint is sent outside the try
\* block (bot.js:348-351); the refusals inside it (353-385) end in the catch
\* (386-390), whose own reply has .catch(() => {}).
ReplyReturns(inv, ok) ==
  /\ handler[inv].pc = "reply"
  /\ LET k == Pending(replies, inv)
         kind == replies[k].kind
         log == [replies EXCEPT ![k].res = IF ok THEN "ok" ELSE "failed"]
         h == handler[inv]
     IN  IF kind = "failure"
         THEN /\ replies' = log
              /\ Return(inv, h, "failed")
         ELSE IF ok
         THEN /\ replies' = log
              /\ Return(inv, h, "refused")
         ELSE IF kind = "usage"
         THEN /\ replies' = log
              /\ Return(inv, h, "escaped")
         ELSE /\ replies' = Append(log, ReplyEntry(inv, h, "failure", 0))
              /\ handler' = handler
  /\ UNCHANGED <<now, storeVars, tagallLastRun, sent>>
  /\ UNCHANGED menuVars

\* sendMessage resolves: bot.js:1110, pacing sleep or end of the loop
SendOk(inv) ==
  /\ handler[inv].pc = "send"
  /\ LET k == Pending(sent, inv)
         h == handler[inv]
     IN  /\ sent' = [sent EXCEPT ![k].res = "ok"]
         /\ IF PacingDue(h.i, Len(Chunks(h.members)))
            THEN handler' = [handler EXCEPT ![inv] =
                    [h EXCEPT !.pc = "sleep", !.sleep = "pacing", !.since = now, !.ms = DELAY_MS]]
            ELSE Return(inv, h, "completed")
  /\ UNCHANGED <<now, storeVars, tagallLastRun, replies>>
  /\ UNCHANGED menuVars

\* sendMessage rejects with an error carrying retryAfter: bot.js:1100-1108
SendFails(inv, e) ==
  /\ handler[inv].pc = "send"
  /\ e.retry_after # 0 =>
       Cardinality({j \in 1..Len(sent) : sent[j].inv = inv /\ sent[j].retry_after # 0})
         < MaxThrottle
  /\ LET k == Pending(sent, inv)
         h == handler[inv]
         log == [sent EXCEPT ![k].res = "fail", ![k].retry_after = e.retry_after]
     IN  IF IsThrottle(e)
         THEN /\ sent' = log
              /\ handler' = [handler EXCEPT ![inv] =
                    [h EXCEPT !.pc = "sleep", !.sleep = "backoff", !.since = now,
                              !.ms = BackoffMs(e.retry_after)]]
              /\ UNCHANGED replies
         ELSE /\ sent' = log
              /\ CallReply(inv, h, "failure", 0)
  /\ UNCHANGED <<now, storeVars, tagallLastRun>>
  /\ UNCHANGED menuVars

\* fault: the recipients are read from the store again after every sleep
Wake_Requery(inv) ==
  /\ handler[inv].pc = "sleep"
  /\ now - handler[inv].since >= handler[inv].ms
  /\ LET h0 == [handler[inv] EXCEPT !.since = 0, !.ms = 0]
         members == IF h0.type = "tagall"
                    THEN selectMembers(chat_members, h0.chat, MAX_USERS)
                    ELSE selectTeamMembers(chat_members, chat_team_members, h0.chat, h0.slug)
         h == [h0 EXCEPT !.members = members]
         i == IF h.sleep = "backoff" THEN IndexAfterBackoff(h.i) ELSE IndexAfterPacing(h.i)
     IN  IF i < Len(Chunks(h.members))
         THEN CallSend(inv, h, i)
         ELSE Return(inv, h, "completed") /\ sent' = sent
  /\ UNCHANGED <<now, storeVars, tagallLastRun, replies>>
  /\ UNCHANGED menuVars

\* the timer of sleep(ms) fires, not before ms have passed: next iteration
Wake(inv) ==
  /\ handler[inv].pc = "sleep"
  /\ now - handler[inv].since >= handler[inv].ms
  /\ LET h == [handler[inv] EXCEPT !.since = 0, !.ms = 0]
         i == IF h.sleep = "backoff" THEN IndexAfterBackoff(h.i) ELSE IndexAfterPacing(h.i)
     IN  IF i < Len(Chunks(h.members))
         THEN CallSend(inv, h, i)
         ELSE Return(inv, h, "completed") /\ sent' = sent
  /\ UNCHANGED <<now, storeVars, tagallLastRun, replies>>
  /\ UNCHANGED menuVars

Tick ==
  /\ now + TickMs <= StartMs + MaxTicks * TickMs
  /\ now' = now + TickMs
  /\ UNCHANGED <<storeVars, tagallLastRun, handler, sent, replies>>
  /\ UNCHANGED menuVars

\* insertTeamMemberStmt throws, and writes nothing, when the row is there:
\* PRIMARY KEY (chat_id, slug, user_id)
insertTeamMemberThrows(tm, chatId, slug, userId) == <<chatId, slug, userId>> \in tm

\* insertTeamMemberStmt
insertTeamMember(tm, chatId, slug, userId) == tm \cup {<<chatId, slug, userId>>}

\* deleteTeamMemberStmt
deleteTeamMember(tm, chatId, slug, userId) == tm \ {<<chatId, slug, userId>>}

\* user ids a callback query can carry: a roster user, the bot on the roster,
\* a user the chat has never seen
CallbackUsers == {5, BotUser, 7}

\* fault: what the insert throws leaves the handler
TryInsert_NoCatch(thrown) == thrown

\* "try { insertTeamMemberStmt.run(cid, slug, userId); } catch (e) {}": whether
\* something thrown by the insert leaves the handler
TryInsert(thrown) == FALSE

\* bot.action adm_a1 (bot.js:762-774, and 776-788 from the private menu):
\* slug and userId are read from the callback data; after the await of the
\* admin lookup the row is inserted, whether the team is there or not, and
\* the answer is "Dobavlen" (added)
adm_a1(chatId, slug, userId, status) ==
  /\ isAdmin(status)
  /\ chat_team_members' = insertTeamMember(chat_team_members, chatId, slug, userId)
  /\ answered' =
       IF TryInsert(insertTeamMemberThrows(chat_team_members, chatId, slug, userId))
       THEN "thrown" ELSE "Dobavlen"
  /\ UNCHANGED <<now, tagallLastRun, chat_members, chat_settings, chat_teams,
                 handler, sent, replies, adminInputState, admins, env>>

\* bot.action adm_r1 (bot.js:790-802, and 804-816): the answer is "Ubran"
\* (removed)
adm_r1(chatId, slug, userId, status) ==
  /\ isAdmin(status)
  /\ chat_team_members' = deleteTeamMember(chat_team_members, chatId, slug, userId)
  /\ answered' = "Ubran"
  /\ UNCHANGED <<now, tagallLastRun, chat_members, chat_settings, chat_teams,
                 handler, sent, replies, adminInputState, admins, env>>

\* what Telegram answers to getChatMember(chatId, userId) at this moment
getChatMember(adm, chatId, userId) ==
  IF <<chatId, userId>> \in adm THEN "administrator" ELSE "member"

\* the chat's owner gives or takes the administrator right
promote(chatId, userId) ==
  /\ <<chatId, userId>> \notin admins
  /\ admins' = admins \cup {<<chatId, userId>>}
  /\ UNCHANGED <<now, tagallLastRun, storeVars, handler, sent, replies, adminInputState, answered, env>>

demote(chatId, userId) ==
  /\ <<chatId, userId>> \in admins
  /\ admins' = admins \ {<<chatId, userId>>}
  /\ UNCHANGED <<now, tagallLastRun, storeVars, handler, sent, replies, adminInputState, answered, env>>

\* bot.action adm_who (bot.js:586-595, and 597-607 from the private menu):
\* after the admin lookup the setting is upserted
adm_who(chatId, who, status) ==
  /\ isAdmin(status)
  /\ chat_settings' = [chat_settings EXCEPT ![chatId] = IF who = "admins" THEN "1" ELSE "0"]
  /\ UNCHANGED <<now, tagallLastRun, chat_members, chat_teams, chat_team_members,
                 handler, sent, replies, menuVars>>

\* bot.action adm_new (bot.js:961-972, 974-985): after the admin lookup the
\* user's next text message is awaited as the name of a new team
adm_new(chatId, from, status) ==
  /\ isAdmin(status)
  /\ adminInputState' = adminInputSet(adminInputState, from, "new_team_slug", chatId, "")
  /\ UNCHANGED <<now, tagallLastRun, storeVars, handler, sent, replies, admins, answered, env>>

\* bot.action adm_ren (bot.js:840-852, 854-866)
adm_ren(chatId, from, slug, status) ==
  /\ isAdmin(status)
  /\ adminInputState' = adminInputSet(adminInputState, from, "rename_team", chatId, slug)
  /\ UNCHANGED <<now, tagallLastRun, storeVars, handler, sent, replies, admins, answered, env>>

\* bot.action adm_cn (bot.js:987-1018): cancel of the new-team input
adm_cn(from) ==
  /\ adminInputState' = adminInputDelete(adminInputState, from)
  /\ UNCHANGED <<now, tagallLastRun, storeVars, handler, sent, replies, admins, answered, env>>

\* bot.action adm_cr (bot.js:1020-1046): cancel of the rename input
adm_cr(from) ==
  /\ adminInputState' = adminInputDelete(adminInputState, from)
  /\ UNCHANGED <<now, tagallLastRun, storeVars, handler, sent, replies, admins, answered, env>>

\* fault: deleteTeamAllMembersStmt is not run
adm_delok_TeamOnly(chatId, slug, status) ==
  /\ isAdmin(status)
  /\ chat_teams' = chat_teams \ {<<chatId, slug>>}
  /\ UNCHANGED <<now, tagallLastRun, chat_members, chat_settings, chat_team_members,
                 handler, sent, replies, menuVars>>

\* bot.action adm_delok (bot.js:900-918, 920-939): deleteTeamAllMembersStmt,
\* deleteTeamStmt
adm_delok(chatId, slug, status) ==
  /\ isAdmin(status)
  /\ chat_team_members' = {m \in chat_team_members : ~(m[1] = chatId /\ m[2] = slug)}
  /\ chat_teams' = chat_teams \ {<<chatId, slug>>}
  /\ UNCHANGED <<now, tagallLastRun, chat_members, chat_settings,
                 handler, sent, replies, menuVars>>

\* const SLUG_MAX_LEN = 32
SLUG_MAX_LEN == 32

\* a text of SLUG_MAX_LEN + 1 letters
LongText == "aaaaaaaaaaaaaaaaaaaaaaaaaaaaaaaaa"

\* the slugs the texts of the model can store
Slugs == {"friends", "crew", "Crew", "tagall"}

\* texts an admin types as a team name: a command with the bot's name, a
\* padded name, a name in another letter case, a name with a space, a bare
\* slash, a name that is too long
InputTexts == {"/crew@a_bot", " friends ", "Crew", "no good", "/", LongText}

\* the characters of a text of the model
TextChars(s) ==
  CASE s = "friends" -> <<"f", "r", "i", "e", "n", "d", "s">>
    [] s = "crew" -> <<"c", "r", "e", "w">>
    [] s = "Crew" -> <<"C", "r", "e", "w">>
    [] s = "tagall" -> <<"t", "a", "g", "a", "l", "l">>
    [] s = "/crew@a_bot" -> <<"/", "c", "r", "e", "w", "@", "a", "_", "b", "o", "t">>
    [] s = " friends " -> <<" ", "f", "r", "i", "e", "n", "d", "s", " ">>
    [] s = "/tagall" -> <<"/", "t", "a", "g", "a", "l", "l">>
    [] s = "/tagall" -> <<"/", "t", "a", "g", "a", "l", "l">>
    [] s = "no good" -> <<"n", "o", " ", "g", "o", "o", "d">>
    [] s = "/" -> <<"/">>
    [] s = LongText -> [k \in 1..(SLUG_MAX_LEN + 1) |-> "a"]

\* the text with the characters cs
Str(cs) == CHOOSE s \in Slugs \cup InputTexts : TextChars(s) = cs

\* [a-zA-Z0-9_], which is also \w
IsWordChar(c) ==
  \/ \E k \in 1..Len(LowerCase) : c = LowerCase[k] \/ c = UpperCase[k]
  \/ c \in {"0", "1", "2", "3", "4", "5", "6", "7", "8", "9", "_"}

\* s.replace(/^\/+/, "")
RECURSIVE StripSlashes(_)
StripSlashes(s) == IF s # <<>> /\ Head(s) = "/" THEN StripSlashes(Tail(s)) ELSE s

\* s.replace(/@[\w_]+$/i, ""): the text is cut at an "@" that is followed by
\* word characters only, and by at least one
StripBotName(s) ==
  LET at == {k \in 1..(Len(s) - 1) :
               s[k] = "@" /\ \A j \in (k + 1)..Len(s) : IsWordChar(s[j])}
  IN  IF at = {} THEN s ELSE SubSeq(s, 1, (CHOOSE k \in at : TRUE) - 1)

\* normalizeTeamSlugInput: trim, leading slashes and a trailing @bot removed
normalizeTeamSlugInput(input) == StripBotName(StripSlashes(Trim(input)))

\* SLUG_REGEX = /^[a-zA-Z0-9_]+$/
SLUG_REGEX(text) == text # <<>> /\ \A k \in 1..Len(text) : IsWordChar(text[k])

\* fault: the length is not looked at
SlugOk_AnyLength(text) == Truthy(text) /\ SLUG_REGEX(text)

\* "!text || text.length > SLUG_MAX_LEN || !SLUG_REGEX.test(text)", negated
SlugOk(text) == Truthy(text) /\ Len(text) <= SLUG_MAX_LEN /\ SLUG_REGEX(text)

\* fault: the slug is compared without regard to letter case
getTeam_NoCase(teams, chatId, slug) ==
  \E t \in teams : t[1] = chatId /\ Lower(t[2]) = Lower(slug)

\* getTeamStmt: "WHERE chat_id = ? AND slug = ?", the slug compared as it is
\* written
getTeam(teams, chatId, slug) == <<chatId, slug>> \in teams

\* insertTeamStmt
insertTeam(teams, chatId, slug) == teams \cup {<<chatId, slug>>}

\* updateTeamSlugStmt
updateTeamSlug(teams, chatId, oldSlug, text) ==
  {IF t = <<chatId, oldSlug>> THEN <<chatId, text>> ELSE t : t \in teams}

\* updateTeamMembersSlugStmt fails as a whole, and changes no row, when a row
\* it would write is already there: PRIMARY KEY (chat_id, slug, user_id)
updateTeamMembersSlugFails(tm, chatId, oldSlug, text) ==
  \E m \in tm : m[1] = chatId /\ m[2] = oldSlug /\ <<chatId, text, m[3]>> \in tm

\* updateTeamMembersSlugStmt
updateTeamMembersSlug(tm, chatId, oldSlug, text) ==
  IF updateTeamMembersSlugFails(tm, chatId, oldSlug, text) THEN tm
  ELSE {IF m[1] = chatId /\ m[2] = oldSlug THEN <<chatId, text, m[3]>> ELSE m : m \in tm}

\* The first "message" middleware with a pending text input of the sender
\* (bot.js:264-327): the sender is stored, the text is taken as the name of
\* the new team or as the new name of state.slug in chat state.chatId, and
\* the update is not passed on.  No role is looked up here.  The two updates
\* of a rename are two statements, each committed on its own: when the second
\* one throws, the first one stays and the pending input is kept.  The answers
\* of the menu are not kept in the reply log.
adminInput(chat, from, raw) ==
  LET state == adminInputGet(adminInputState, from)
      text == normalizeTeamSlugInput(Trim(TextChars(raw)))
      cid == state.chatId
  IN  /\ state # NoInput
      /\ chat_members' = storeUser(chat_members, chat, from, now)
      /\ IF ~SlugOk(text)
         THEN UNCHANGED <<chat_teams, chat_team_members, adminInputState>>
         ELSE IF state.step = "new_team_slug"
         THEN IF getTeam(chat_teams, cid, Str(text))
              THEN UNCHANGED <<chat_teams, chat_team_members, adminInputState>>
              ELSE /\ chat_teams' = insertTeam(chat_teams, cid, Str(text))
                   /\ adminInputState' = adminInputDelete(adminInputState, from)
                   /\ UNCHANGED chat_team_members
         ELSE IF Str(text) = state.slug
              THEN /\ adminInputState' = adminInputDelete(adminInputState, from)
                   /\ UNCHANGED <<chat_teams, chat_team_members>>
              ELSE IF getTeam(chat_teams, cid, Str(text))
              THEN UNCHANGED <<chat_teams, chat_team_members, adminInputState>>
              ELSE /\ chat_teams' = updateTeamSlug(chat_teams, cid, state.slug, Str(text))
                   /\ chat_team_members' =
                        updateTeamMembersSlug(chat_team_members, cid, state.slug, Str(text))
                   /\ adminInputState' =
                        IF updateTeamMembersSlugFails(chat_team_members, cid,
                                                      state.slug, Str(text))
                        THEN adminInputState
                        ELSE adminInputDelete(adminInputState, from)
      /\ UNCHANGED <<now, tagallLastRun, chat_settings, handler, sent, replies, admins, answered, env>>

\* bot.on("new_chat_members"): the first message middleware stores the sender
\* (bot.js:264-267, 328), then every joined user is stored in one loop, all
\* with the Date.now() of the same millisecond
RECURSIVE storeUsers(_, _, _, _)
storeUsers(cm, chatId, users, t) ==
  IF users = <<>> THEN cm
  ELSE storeUsers(storeUser(cm, chatId, Head(users), t), chatId, Tail(users), t)

new_chat_members(chatId, from, members) ==
  /\ chat_members' = storeUsers(storeUser(chat_members, chatId, from, now), chatId, members, now)
  /\ UNCHANGED <<now, tagallLastRun, chat_settings, chat_teams, chat_team_members,
                 handler, sent, replies>>
  /\ UNCHANGED menuVars

----------------------------------------------------------------------------
InitMembers ==
  [c \in Chats |->
     IF c = "g1" THEN <<Row(1, 1), Row(2, 2), Row(BotUser, 3), Row(3, 4), Row(4, 5), Row(5, 6)>>
     ELSE <<>>]

InitTeams == {<<"g1", "friends">>, <<"g2", "friends">>}

InitTeamMembers == {<<"g1", "friends", 2>>, <<"g1", "friends", 4>>, <<"g1", "friends", 5>>}

Init ==
  /\ now = StartMs
  /\ tagallLastRun \in
       {[c \in Chats |-> IF c = "g1" THEN t ELSE 0] : t \in {0, EarlierRunMs, StartMs}}
  /\ chat_members = InitMembers
  /\ chat_settings \in {[c \in Chats |-> IF c = "g1" THEN v ELSE "0"] : v \in {"absent", "1"}}
  /\ chat_settings["g1"] = "1" => tagallLastRun["g1"] = 0
  /\ chat_teams = InitTeams
  /\ chat_team_members = InitTeamMembers
  /\ handler = [inv \in Invs |-> Idle]
  /\ sent = <<>>
  /\ replies = <<>>
  /\ adminInputState = {}
  /\ admins = {}
  /\ answered = "-"
  /\ env = ModelEnv

\* what a message is besides its command word: a reply or not, with media or
\* not, with further text or not
Shape(msg) ==
  [reply_to_message |-> msg.reply_to_message, media |-> msg.media, rest |-> msg.rest]

AllShapes == [reply_to_message : {0, RepliedId}, media : BOOLEAN, rest : BOOLEAN]

\* one message for each way getTargetMessageId can go: a reply, media, further
\* text, the bare command
BranchShapes ==
  {sh \in AllShapes :
     Cardinality({x \in {"reply", "media", "rest"} :
                    \/ x = "reply" /\ sh.reply_to_message # 0
                    \/ x = "media" /\ sh.media
                    \/ x = "rest" /\ sh.rest}) <= 1}

ReplyShapes == {sh \in BranchShapes : sh.reply_to_message # 0}

\* the steps of the invocations in I, with their inputs drawn from the given sets
Steps(I, chats, senders, words, shapes, statuses) ==
  \/ \E inv \in I, chat \in chats, from \in senders :
       \E msg \in Messages(inv) :
          /\ msg.word \in words
          /\ Shape(msg) \in shapes
          /\ Receive(inv, chat, from, msg)
  \/ \E inv \in I, status \in statuses : IsAdminReturns(inv, status)
  \/ \E inv \in I, ok \in BOOLEAN : ReplyReturns(inv, ok)
  \/ \E inv \in I : SendOk(inv)
  \/ \E inv \in I, e \in TransportErrors : SendFails(inv, e)
  \/ \E inv \in I : Wake(inv)
  \/ Tick

\* one invocation, all inputs
Next == Steps(Solo, Chats, Senders, Words, BranchShapes, Statuses)

Spec == Init /\ [][Next]_vars

\* two interleaved invocations in one supergroup, each a reply by user 1
NextConc ==
  Steps(Invs, {"g2"}, {1}, {"tagall", "Friends"}, ReplyShapes, {"administrator", "member"})

InitConc ==
  /\ now = StartMs
  /\ tagallLastRun = [c \in Chats |-> 0]
  /\ chat_members =
       [c \in Chats |-> IF c = "g2" THEN <<Row(1, 1), Row(2, 2), Row(3, 3)>> ELSE <<>>]
  /\ chat_settings \in {[c \in Chats |-> IF c = "g2" THEN v ELSE "absent"] : v \in {"0", "1"}}
  /\ chat_teams = {<<"g2", "friends">>}
  /\ chat_team_members = {<<"g2", "friends", 3>>}
  /\ handler = [inv \in Invs |-> Idle]
  /\ sent = <<>>
  /\ replies = <<>>
  /\ adminInputState = {}
  /\ admins = {}
  /\ answered = "-"
  /\ env = ModelEnv

SpecConc == InitConc /\ [][NextConc]_vars

\* one team invocation in g1 by an administrator or a member, with the team
\* menu's add and remove callbacks arriving in between
NextTeams ==
  \/ Steps(Solo, {"g1"}, {1}, {"Friends", "nosuch"}, ReplyShapes, {"administrator", "member"})
  \/ \E userId \in CallbackUsers, status \in {"administrator", "member"} :
       adm_a1("g1", "friends", userId, status)
  \/ \E userId \in CallbackUsers, status \in {"administrator", "member"} :
       adm_r1("g1", "friends", userId, status)

\* one invocation in g1 by an administrator, with every shape of message
NextTarget ==
  Steps(Solo, {"g1"}, {1}, AllWords, AllShapes, {"administrator"})

SpecTarget == Init /\ [][NextTarget]_vars

\* two interleaved /tagall invocations, each in either of two groups
NextChats ==
  Steps(Invs, {"g1", "g2"}, {1}, {"tagall"}, ReplyShapes, {"administrator", "member"})

InitChats ==
  /\ now = StartMs
  /\ tagallLastRun = [c \in Chats |-> 0]
  /\ chat_members =
       [c \in Chats |-> IF c = "g1" THEN <<Row(1, 1), Row(2, 2), Row(3, 3)>>
                        ELSE IF c = "g2" THEN <<Row(1, 1), Row(4, 2)>>
                        ELSE <<>>]
  /\ chat_settings = [c \in Chats |-> IF c = "g2" THEN "1" ELSE "0"]
  /\ chat_teams = {}
  /\ chat_team_members = {}
  /\ handler = [inv \in Invs |-> Idle]
  /\ sent = <<>>
  /\ replies = <<>>
  /\ adminInputState = {}
  /\ admins = {}
  /\ answered = "-"
  /\ env = ModelEnv

SpecChats == InitChats /\ [][NextChats]_vars

InitTeamsSpec ==
  /\ now = StartMs
  /\ tagallLastRun = [c \in Chats |-> 0]
  /\ chat_members = InitMembers
  /\ chat_settings = [c \in Chats |-> "absent"]
  /\ chat_teams = InitTeams
  /\ chat_team_members = {<<"g1", "friends", u>> : u \in {1, 2, 3, 4}}
  /\ handler = [inv \in Invs |-> Idle]
  /\ sent = <<>>
  /\ replies = <<>>
  /\ adminInputState = {}
  /\ admins = {}
  /\ answered = "-"
  /\ env = ModelEnv

SpecTeams == InitTeamsSpec /\ [][NextTeams]_vars

----------------------------------------------------------------------------
\* Views of the logs used by the properties

SentBy(inv) == LET Mine(e) == e.inv = inv IN SelectSeq(sent, Mine)
RepliesBy(inv) == LET Mine(e) == e.inv = inv IN SelectSeq(replies, Mine)
Delivered(inv) == LET Ok(e) == e.inv = inv /\ e.res = "ok" IN SelectSeq(sent, Ok)

RECURSIVE Flatten(_)
Flatten(ss) == IF ss = <<>> THEN <<>> ELSE Head(ss) \o Flatten(Tail(ss))

Recipients(log) == Flatten([k \in 1..Len(log) |-> log[k].users])

Throttled(e) == e.res = "fail" /\ e.retry_after # 0

\* the text of a logged send: label and suffix are computed before the loop
\* from teamSlug, the mentions in iteration i from chunks[i] (bot.js:1084-1092)
TextOf(e) == SendText(Chunks(handler[e.inv].members), e.i, Suffix(e.team))
Errored(e) == e.res = "fail" /\ e.retry_after = 0

\* batch sizes tried for the partition round trip
MaxChunk == 3

----------------------------------------------------------------------------
\* C1: a dispatch that completes has delivered, in send order, exactly the
\* resolved recipient list: nothing lost, duplicated or reordered; and
\* cutting that list into chunks of any size 1..MaxChunk and joining the
\* chunks gives the list back.
C1_RoundTrip ==
  \A inv \in Invs :
    handler[inv].outcome = "completed" =>
      /\ Recipients(Delivered(inv)) = handler[inv].members
      /\ \A size \in 1..MaxChunk :
           Flatten(ChunksOf(handler[inv].members, size)) = handler[inv].members

\* a dispatch of two chunks completed although one send was throttled
C1_Witness ==
  \E inv \in Invs :
    /\ handler[inv].outcome = "completed"
    /\ Len(Delivered(inv)) >= 2
    /\ \E k \in 1..Len(sent) : sent[k].inv = inv /\ Throttled(sent[k])

----------------------------------------------------------------------------
\* C2: after a throttle answer with retry_after T the handler sleeps at least
\* T + 1 seconds and its next send is the same chunk, with the same content
\* and target; it moves to the next chunk only after a delivered one, and a
\* completed dispatch has delivered every chunk exactly once.
C2_RetryLog(inv) ==
  LET log == SentBy(inv)
      n == Len(Chunks(handler[inv].members))
  IN  /\ \A k \in 1..(Len(log) - 1) :
           /\ Throttled(log[k]) =>
                /\ log[k + 1].i = log[k].i
                /\ log[k + 1].users = log[k].users
                /\ log[k + 1].reply_to = log[k].reply_to
                /\ log[k + 1].team = log[k].team
           /\ log[k + 1].i # log[k].i => log[k].res = "ok"
      /\ handler[inv].outcome = "completed" =>
           \A b \in 0..(n - 1) :
             Cardinality({k \in 1..Len(log) : log[k].i = b /\ log[k].res = "ok"}) = 1

C2_BackoffWait(inv) ==
  (/\ handler[inv].pc = "sleep"
   /\ handler[inv].sleep = "backoff"
   /\ handler'[inv].pc # "sleep")
  => now - handler[inv].since >= (SentBy(inv)[Len(SentBy(inv))].retry_after + 1) * 1000

C2_ThrottleRetry ==
  /\ [](\A inv \in Invs : C2_RetryLog(inv))
  /\ [][\A inv \in Invs : C2_BackoffWait(inv)]_vars

\* a throttled chunk was sent again and delivered
C2_Witness ==
  \E inv \in Invs :
    LET log == SentBy(inv)
    IN  \E k \in 1..(Len(log) - 1) :
          Throttled(log[k]) /\ log[k].retry_after = 1 /\ log[k + 1].res = "ok"

----------------------------------------------------------------------------
\* C3: the sends of one dispatch are issued one at a time and in ascending
\* recipient order: at most one send is awaited, and it is the newest; the
\* first send is chunk 0; each further send is the next chunk after a
\* delivered one or the same chunk after a failed one; chunk i holds the
\* recipients i*CHUNK+1 .. (i+1)*CHUNK of the resolved list.
C3_Sequential ==
  \A inv \in Invs :
    LET log == SentBy(inv)
        m == handler[inv].members
    IN  /\ \A k \in 1..Len(log) : log[k].res = "pending" => k = Len(log)
        /\ (handler[inv].pc = "send") = (log # <<>> /\ log[Len(log)].res = "pending")
        /\ log # <<>> => log[1].i = 0
        /\ \A k \in 1..(Len(log) - 1) :
             \/ log[k + 1].i = log[k].i + 1 /\ log[k].res = "ok"
             \/ log[k + 1].i = log[k].i /\ log[k].res = "fail"
        /\ \A k \in 1..Len(log) :
             log[k].users =
               SubSeq(m, log[k].i * CHUNK + 1, Min((log[k].i + 1) * CHUNK, Len(m)))

\* the second chunk is in flight after the first was throttled, then delivered
C3_Witness ==
  \E inv \in Invs :
    LET log == SentBy(inv)
    IN  /\ Len(log) = 3
        /\ log[1].res = "fail" /\ log[2].res = "ok" /\ log[3].i = 1
        /\ handler[inv].pc = "send"

----------------------------------------------------------------------------
\* Steps of a handler as the properties see them

CooldownMs == COOLDOWN_SEC * 1000

\* the run that takes the handler from the arrival of the update, or from
\* the answer of getChatMember, to its next await
GateStep(inv) ==
  /\ handler[inv].pc \in {"idle", "isAdmin"}
  /\ handler'[inv].pc \notin {"idle", "isAdmin"}

NewReply(inv, kinds) ==
  /\ Len(replies') = Len(replies) + 1
  /\ replies'[Len(replies')].inv = inv
  /\ replies'[Len(replies')].kind \in kinds

FirstSend(inv) ==
  /\ \A k \in 1..Len(sent) : sent[k].inv # inv
  /\ Len(sent') = Len(sent) + 1
  /\ sent'[Len(sent')].inv = inv

\* the cooldown window of the chat is open to an invocation arriving now
WindowOpen(c) == tagallLastRun[c] = 0 \/ now - tagallLastRun[c] >= CooldownMs

----------------------------------------------------------------------------
\* C4: with invocations of one chat interleaved at their awaits, a dispatch
\* issues its first send only in a run that found the cooldown window open
\* and stamped it in that same run; the stamp is written by no other step;
\* so two admissions of a chat, full roster or team, are at least the
\* cooldown apart.
C4_Admission(inv) ==
  FirstSend(inv) =>
    /\ WindowOpen(handler'[inv].chat)
    /\ tagallLastRun' = [tagallLastRun EXCEPT ![handler'[inv].chat] = now]
    /\ sent'[Len(sent')].i = 0

C4_OneAdmissionPerWindow ==
  /\ [][\A inv \in Invs : C4_Admission(inv)]_vars
  /\ [][tagallLastRun' # tagallLastRun => \E inv \in Invs : FirstSend(inv)]_vars

\* a team invocation was refused for cooldown while the full-roster dispatch
\* of the same chat was still sending
C4_Witness ==
  \E a, b \in Invs :
    /\ a # b
    /\ handler[a].chat = handler[b].chat
    /\ handler[a].pc \in {"send", "sleep"}
    /\ handler[a].type = "tagall" /\ handler[b].type = "team"
    /\ \E k \in 1..Len(replies) : replies[k].inv = b /\ replies[k].kind = "cooldown"

----------------------------------------------------------------------------
\* C5: an invocation that reaches the cooldown check e ms after the last
\* admission of its chat is refused exactly when e is below the cooldown, with
\* the wait being the least whole number of seconds covering the rest (1 up
\* to the cooldown, 1 when one second is left); a chat without an earlier
\* admission is never refused for cooldown.
C5_Check(inv) ==
  LET c == handler'[inv].chat
      e == now - tagallLastRun[c]
      w == replies'[Len(replies')].waitSec
  IN  /\ (GateStep(inv) /\ NewReply(inv, {"cooldown"})) =>
            /\ tagallLastRun[c] # 0
            /\ e < CooldownMs
            /\ w \in 1..COOLDOWN_SEC
            /\ w * 1000 >= CooldownMs - e
            /\ (w - 1) * 1000 < CooldownMs - e
            /\ (e = CooldownMs - 1000 => w = 1)
      /\ (GateStep(inv) /\ (NewReply(inv, {"no_members", "team_empty"}) \/ FirstSend(inv))) =>
            WindowOpen(c)

C5_CooldownWait == [][\A inv \in Invs : C5_Check(inv)]_vars

\* refused with one second to wait, half a second of it already gone
C5_Witness ==
  \E k \in 1..Len(replies) :
    /\ replies[k].kind = "cooldown"
    /\ replies[k].waitSec = 1
    /\ tagallLastRun[replies[k].chat] = EarlierRunMs

----------------------------------------------------------------------------
\* C6: in a chat whose setting is 1 or absent, chunks are sent only for an
\* invoker whose status is administrator or creator; in a chat whose setting
\* is 0 the status is not asked for and chunks are sent without it.
C6_AdminOnly ==
  \A inv \in Invs :
    LET c == handler[inv].chat
    IN  /\ handler[inv].pc = "isAdmin" => chat_settings[c] # "0"
        /\ SentBy(inv) # <<>> =>
             IF chat_settings[c] = "0"
             THEN handler[inv].role = "-"
             ELSE handler[inv].role \in {"administrator", "creator"}

\* an administrator's dispatch in a chat that has no settings row
C6_Witness ==
  \E inv \in Invs :
    /\ handler[inv].role = "administrator"
    /\ chat_settings[handler[inv].chat] = "absent"
    /\ Delivered(inv) # <<>>

----------------------------------------------------------------------------
\* C7: when getChatMember throws, the invocation is answered with the
\* permission refusal, sends no chunk and never stamps the cooldown; the
\* generic failure reply follows only if the refusal itself could not be sent.
C7_AfterError(inv) ==
  handler[inv].role = "error" =>
    LET r == RepliesBy(inv)
    IN  /\ SentBy(inv) = <<>>
        /\ r # <<>> /\ r[1].kind = "permission"
        /\ \A k \in 2..Len(r) : r[k].kind = "failure" /\ r[1].res = "failed"
        /\ handler[inv].outcome \in {"-", "refused", "failed"}
        /\ handler[inv].outcome = "failed" => r[1].res = "failed"

C7_NoStamp(inv) ==
  (handler'[inv].role = "error" /\ handler'[inv] # handler[inv])
    => tagallLastRun' = tagallLastRun

C7_LookupFailsClosed ==
  /\ [](\A inv \in Invs : C7_AfterError(inv))
  /\ [][\A inv \in Invs : C7_NoStamp(inv)]_vars

\* the lookup failed and the handler returned after the refusal was delivered
C7_Witness ==
  \E inv \in Invs :
    /\ handler[inv].role = "error"
    /\ handler[inv].outcome = "refused"
    /\ Len(RepliesBy(inv)) = 1 /\ RepliesBy(inv)[1].res = "ok"

----------------------------------------------------------------------------
\* C8: a /tagall invocation in a chat that is neither group nor supergroup
\* gets a "groups only" reply and sends no chunk.
C8_GroupsOnlyReply ==
  \A inv \in Invs :
    (/\ handler[inv].pc = "done"
     /\ ~isGroupChat(handler[inv].chat)
     /\ Lower(handler[inv].word) = "tagall")
    => /\ SentBy(inv) = <<>>
       /\ \E k \in 1..Len(replies) : replies[k].inv = inv /\ replies[k].kind = "groups_only"

----------------------------------------------------------------------------
\* C9: an invocation that passes the permission and cooldown checks with no
\* recipient to resolve (no non-bot roster row for /tagall, no team member)
\* is answered with the nothing-to-mention reply, sends no chunk and leaves
\* the cooldown alone.
RosterIds(c, bots) ==
  {chat_members[c][k].user_id : k \in {j \in 1..Len(chat_members[c]) :
                                          bots \/ ~chat_members[c][j].is_bot}}

ResolvedSet(inv) ==
  LET c == handler[inv].chat
  IN  IF handler[inv].type = "tagall" THEN RosterIds(c, FALSE)
      ELSE {u \in RosterIds(c, TRUE) : <<c, handler[inv].slug, u>> \in chat_team_members}

C9_Empty(inv) ==
  LET c == handler'[inv].chat
  IN  (/\ GateStep(inv)
       /\ isGroupChat(c)
       /\ handler'[inv].type # "none"
       /\ handler'[inv].target # 0
       /\ chat_settings[c] = "0" \/ handler'[inv].role \in {"administrator", "creator"}
       /\ WindowOpen(c)
       /\ ResolvedSet(inv)' = {})
      => /\ NewReply(inv, {"no_members", "team_empty"})
         /\ sent' = sent
         /\ tagallLastRun' = tagallLastRun

C9_NoSends(inv) ==
  (\E k \in 1..Len(replies) : replies[k].inv = inv /\ replies[k].kind \in {"no_members", "team_empty"})
    => SentBy(inv) = <<>> /\ ResolvedSet(inv) = {}

C9_NothingToMention ==
  /\ [](\A inv \in Invs : C9_NoSends(inv) /\ (SentBy(inv) # <<>> => ResolvedSet(inv) # {}))
  /\ [][\A inv \in Invs : C9_Empty(inv)]_vars

\* /tagall by an anonymous admin in a chat whose roster holds no other user
C9_Witness ==
  \E inv \in Invs :
    /\ handler[inv].type = "tagall"
    /\ handler[inv].outcome = "refused"
    /\ RepliesBy(inv) # <<>>
    /\ RepliesBy(inv)[1].kind = "no_members" /\ RepliesBy(inv)[1].res = "ok"
    /\ chat_members[handler[inv].chat] # <<>>

----------------------------------------------------------------------------
\* C10: a send that fails without a retry_after is the last send of its
\* dispatch; the chunks before it were each delivered once and stay in the
\* log as delivered; the generic failure reply is sent to the chat.
C10_AfterFailure(inv) ==
  LET log == SentBy(inv)
  IN  \A k \in 1..Len(log) :
        Errored(log[k]) =>
          /\ k = Len(log)
          /\ \A b \in 0..(log[k].i - 1) :
               Cardinality({j \in 1..Len(log) : log[j].i = b /\ log[j].res = "ok"}) = 1
          /\ \E j \in 1..Len(replies) :
               /\ replies[j].inv = inv
               /\ replies[j].kind = "failure"
               /\ replies[j].chat = log[k].chat
          /\ handler[inv].pc \in {"reply", "done"}
          /\ handler[inv].outcome \in {"-", "failed"}

C10_Kept ==
  \A k \in 1..Len(sent) :
    sent[k].res = "ok" => Len(sent') >= k /\ sent'[k] = sent[k]

----------------------------------------------------------------------------
\* C11: a delivered chunk that is not the last is followed by a sleep of
\* DELAY_MS, and the next send comes no sooner than that; a delivered last
\* chunk ends the dispatch without a sleep; a throttled send is followed by
\* the back-off sleep alone, the retry being issued when it ends.
C11_Resolved(inv) ==
  \E k \in 1..Len(sent) :
    /\ sent[k].inv = inv /\ sent[k].res = "pending"
    /\ sent'[k].res # "pending"

C11_Step(inv) ==
  LET h == handler[inv]
      g == handler'[inv]
      last == (h.i + 1) * CHUNK >= Len(h.members)
      k == CHOOSE j \in 1..Len(sent) : sent[j].inv = inv /\ sent[j].res = "pending"
  IN  /\ (C11_Resolved(inv) /\ sent'[k].res = "ok" /\ ~last) =>
            /\ g.pc = "sleep" /\ g.sleep = "pacing"
            /\ g.since = now /\ g.ms = DELAY_MS
            /\ Len(sent') = Len(sent)
      /\ (C11_Resolved(inv) /\ sent'[k].res = "ok" /\ last) =>
            /\ g.pc = "done" /\ g.outcome = "completed"
            /\ Len(sent') = Len(sent)
      /\ (C11_Resolved(inv) /\ Throttled(sent'[k])) =>
            /\ g.pc = "sleep" /\ g.sleep = "backoff"
            /\ g.since = now /\ g.ms = (sent'[k].retry_after + 1) * 1000
      /\ (h.pc = "sleep" /\ g.pc # "sleep") =>
            /\ now - h.since >= h.ms
            /\ g.pc = "send"
            /\ Len(sent') = Len(sent) + 1
            /\ sent'[Len(sent')].i = (IF h.sleep = "pacing" THEN h.i + 1 ELSE h.i)

C11_Pacing == [][\A inv \in Invs : C11_Step(inv)]_vars

\* a dispatch of two chunks that finished: the second chunk went out after
\* the pacing sleep, and nothing was throttled
C11_Witness ==
  \E inv \in Invs :
    /\ handler[inv].outcome = "completed"
    /\ Len(SentBy(inv)) = 2
    /\ \A k \in 1..2 : SentBy(inv)[k].res = "ok"
    /\ now >= StartMs + DELAY_MS

----------------------------------------------------------------------------
\* C12: a dispatch of n >= 1 recipients that met no error has sent exactly
\* ceil(n / CHUNK) messages; each but the last names CHUNK recipients, the
\* last between 1 and CHUNK; all are replies to the one target message.
C12_Counts(inv) ==
  LET h == handler[inv]
      log == SentBy(inv)
      n == Len(h.members)
      m == Len(log)
  IN  (h.outcome = "completed" /\ \A k \in 1..m : log[k].res = "ok") =>
        /\ n >= 1
        /\ m * CHUNK >= n /\ (m - 1) * CHUNK < n
        /\ \A k \in 1..(m - 1) : Len(log[k].users) = CHUNK
        /\ Len(log[m].users) \in 1..CHUNK
        /\ h.target # 0
        /\ \A k \in 1..m : log[k].reply_to = h.target

\* while a dispatch runs, every send is anchored to the target resolved at
\* the start
C12_Anchored(inv) ==
  \A k \in 1..Len(sent) :
    sent[k].inv = inv => sent[k].reply_to = handler[inv].target /\ sent[k].reply_to # 0

C12_BatchCount == \A inv \in Invs : C12_Counts(inv) /\ C12_Anchored(inv)

\* three recipients went out as a full chunk and a short last one
C12_Witness ==
  \E inv \in Invs :
    /\ handler[inv].outcome = "completed"
    /\ Len(handler[inv].members) = 3
    /\ Len(SentBy(inv)) = 2
    /\ \A k \in 1..2 : SentBy(inv)[k].res = "ok"
    /\ Len(SentBy(inv)[2].users) = 1

----------------------------------------------------------------------------
\* C13: the recipients of a /tagall dispatch are the first min(n, MAX_USERS)
\* non-bot rows of the chat's roster by first_seen, n being the number of
\* such rows: no bot, nobody known only from another chat, nobody skipped in
\* favour of a later arrival.
C13_RosterRows(table) ==
  {table[k] : k \in {j \in 1..Len(table) : ~table[j].is_bot}}

C13_FirstSeen(table, u) ==
  (CHOOSE r \in C13_RosterRows(table) : r.user_id = u).first_seen

C13_Resolved(inv) ==
  LET g == handler'[inv]
      table == chat_members'[g.chat]
      rows == C13_RosterRows(table)
      m == g.members
      chosen == {m[k] : k \in 1..Len(m)}
  IN  (GateStep(inv) /\ FirstSend(inv) /\ g.type = "tagall") =>
        /\ Len(m) = (IF Cardinality(rows) <= MAX_USERS THEN Cardinality(rows) ELSE MAX_USERS)
        /\ Cardinality(chosen) = Len(m)
        /\ chosen \subseteq {r.user_id : r \in rows}
        /\ \A k \in 1..(Len(m) - 1) :
             C13_FirstSeen(table, m[k]) <= C13_FirstSeen(table, m[k + 1])
        /\ \A r \in rows : r.user_id \notin chosen =>
             \A u \in chosen : C13_FirstSeen(table, u) <= r.first_seen

C13_FullRoster == [][\A inv \in Invs : C13_Resolved(inv)]_vars

\* five users and a bot are on the roster: the first four users are chosen
C13_Witness ==
  \E inv \in Invs :
    /\ handler[inv].type = "tagall"
    /\ handler[inv].chat = "g1"
    /\ Len(handler[inv].members) = MAX_USERS
    /\ Cardinality(C13_RosterRows(chat_members["g1"])) > MAX_USERS
    /\ \E k \in 1..Len(chat_members["g1"]) :
         /\ chat_members["g1"][k].is_bot
         /\ chat_members["g1"][k].first_seen
              < C13_FirstSeen(chat_members["g1"], handler[inv].members[3])

----------------------------------------------------------------------------
\* C14: the recipients of a team dispatch are exactly the users that have a
\* team-member row for the team and a row in the chat's member table, by
\* ascending first_seen, however many they are; the team is the one whose
\* stored slug equals the command word ignoring case, and the stored
\* spelling is what the dispatch carries.
C14_FirstSeen(table, u) ==
  (CHOOSE r \in {table[k] : k \in 1..Len(table)} : r.user_id = u).first_seen

C14_Resolved(inv) ==
  LET g == handler'[inv]
      c == g.chat
      table == chat_members'[c]
      known == {table[k].user_id : k \in 1..Len(table)}
      expected == {u \in known : <<c, g.slug, u>> \in chat_team_members}
      m == g.members
  IN  (GateStep(inv) /\ FirstSend(inv) /\ g.type = "team") =>
        /\ {m[k] : k \in 1..Len(m)} = expected
        /\ Len(m) = Cardinality(expected)
        /\ \A k \in 1..(Len(m) - 1) :
             C14_FirstSeen(table, m[k]) <= C14_FirstSeen(table, m[k + 1])
        /\ <<c, g.slug>> \in chat_teams
        /\ Lower(g.slug) = Lower(g.word)
        /\ sent'[Len(sent')].team = g.slug

C14_Team == [][\A inv \in Invs : C14_Resolved(inv)]_vars

\* "/Friends" reached the team stored as "friends", which by then had more
\* members than MAX_USERS and a member row for a user the chat never saw
C14_Witness ==
  \E inv \in Invs :
    /\ handler[inv].word = "Friends" /\ handler[inv].slug = "friends"
    /\ Len(handler[inv].members) > MAX_USERS
    /\ SentBy(inv) # <<>>
    /\ <<"g1", "friends", 7>> \in chat_team_members

----------------------------------------------------------------------------
\* C15: every recipient of a team dispatch is a non-bot user of the chat's
\* roster.
C15_TeamRecipientsNonBot ==
  \A k \in 1..Len(sent) :
    sent[k].team # "" =>
      \A j \in 1..Len(sent[k].users) :
        \E r \in 1..Len(chat_members[sent[k].chat]) :
          /\ chat_members[sent[k].chat][r].user_id = sent[k].users[j]
          /\ ~chat_members[sent[k].chat][r].is_bot

----------------------------------------------------------------------------
\* C16: in a group, a message whose command word is tagall, ignoring case,
\* and no other, is taken as a full-roster command; else a message whose
\* word is, ignoring case, a team slug stored for the chat, and no other, is
\* taken as that team's command; any other message is passed on without a
\* reply or a send.
C16_Classification ==
  \A inv \in Invs :
    LET h == handler[inv]
        slugs == {t[2] : t \in {x \in chat_teams : x[1] = h.chat}}
        isTeam == \E s \in slugs : Lower(s) = Lower(h.word)
    IN  (h.pc # "idle" /\ isGroupChat(h.chat)) =>
          /\ h.type = "tagall" <=> (h.word # NoToken /\ Lower(h.word) = "tagall")
          /\ h.type = "team" <=>
               (h.word # NoToken /\ Lower(h.word) # "tagall" /\ isTeam)
          /\ h.type = "team" => h.slug \in slugs /\ Lower(h.slug) = Lower(h.word)
          /\ h.type = "none" =>
               /\ h.pc = "done" /\ h.outcome = "next"
               /\ SentBy(inv) = <<>> /\ RepliesBy(inv) = <<>>

----------------------------------------------------------------------------
\* C17: a command sent as a reply targets the replied-to message; one that
\* is no reply targets itself if it carries media or text besides the
\* command; a bare command that is no reply gets the usage hint, sends
\* nothing and leaves the cooldown alone.
\* (Of "/tagallx" the x is text left once "/tagall" is removed.)
C17_LeftOver(msg) == msg.rest \/ msg.word = "tagallx"

C17_Target(inv) ==
  LET h == handler[inv]
      msg == h.msg
  IN  (h.pc # "idle" /\ h.type # "none") =>
        /\ h.target = (IF msg.reply_to_message # 0 THEN msg.reply_to_message
                       ELSE IF msg.media \/ C17_LeftOver(msg) THEN msg.message_id
                       ELSE 0)
        /\ msg.message_id = OwnId(inv)
        /\ h.target = 0 =>
             /\ SentBy(inv) = <<>>
             /\ Len(RepliesBy(inv)) = 1 /\ RepliesBy(inv)[1].kind = "usage"
             /\ h.role = "-"
        /\ h.target # 0 => \A k \in 1..Len(RepliesBy(inv)) : RepliesBy(inv)[k].kind # "usage"

C17_NoStamp(inv) ==
  (handler'[inv] # handler[inv] /\ handler'[inv].type # "none" /\ handler'[inv].target = 0)
    => tagallLastRun' = tagallLastRun

C17_TargetMessage ==
  /\ [](\A inv \in Invs : C17_Target(inv))
  /\ [][\A inv \in Invs : C17_NoStamp(inv)]_vars

\* a command with further text, not a reply: the mentions were anchored to
\* the command message itself
C17_Witness ==
  \E inv \in Invs :
    LET msg == handler[inv].msg
    IN  /\ msg.reply_to_message = 0 /\ ~msg.media /\ msg.rest
        /\ handler[inv].target = OwnId(inv)
        /\ Delivered(inv) # <<>>
        /\ Delivered(inv)[1].reply_to = OwnId(inv)

----------------------------------------------------------------------------
\* C18, as stated: once no invocation is in flight, a chat has a cooldown
\* entry only if a dispatch in it delivered all its chunks; a dispatch that
\* aborted leaves none.  (Every entry is empty at the start.)
C18_Quiet == \A inv \in Invs : handler[inv].pc \in {"idle", "done"}

C18_LastSuccessfulDispatch ==
  \A c \in Chats :
    (C18_Quiet /\ tagallLastRun[c] # 0) =>
      \E inv \in Invs : handler[inv].chat = c /\ handler[inv].outcome = "completed"

\* C18, amended: the cooldown entry of a chat holds the time at which the
\* latest dispatch in that chat was admitted, written in the run that issues
\* its first send; the end of a dispatch, delivered or aborted, does not
\* touch it, so an aborted dispatch determines the entry like any other.
C18_Stamped ==
  \A c \in Chats :
    /\ tagallLastRun[c] # 0 <=> \E inv \in Invs : handler[inv].chat = c /\ SentBy(inv) # <<>>
    /\ tagallLastRun[c] <= now

C18_AtAdmission(inv) ==
  /\ FirstSend(inv) => tagallLastRun'[handler'[inv].chat] = now
  /\ (handler[inv].pc # "done" /\ handler'[inv].pc = "done") => tagallLastRun' = tagallLastRun
  /\ (\E k \in 1..Len(sent) : sent[k].inv = inv /\ sent[k].res # sent'[k].res)
       => tagallLastRun' = tagallLastRun

C18_LastAdmission ==
  /\ []C18_Stamped
  /\ [][\A inv \in Invs : C18_AtAdmission(inv)]_vars

\* the only dispatch of the chat aborted on its first chunk, and the entry
\* stands
C18_Witness ==
  /\ C18_Quiet
  /\ tagallLastRun["g2"] # 0
  /\ \E inv \in Invs :
       /\ handler[inv].outcome = "failed"
       /\ Len(SentBy(inv)) = 1 /\ Errored(SentBy(inv)[1])
  /\ \A inv \in Invs : handler[inv].outcome # "completed"

----------------------------------------------------------------------------
\* C19: tagallLastRun is written only by the run that admits a dispatch, and
\* then only at the key of its own chat; a run that ends in the usage hint,
\* the permission refusal, the cooldown notice or the nothing-to-mention
\* reply leaves every entry as it was.
C19_Refusals == {"usage", "permission", "cooldown", "no_members", "team_empty"}

C19_Frame ==
  /\ \A inv \in Invs : NewReply(inv, C19_Refusals) => tagallLastRun' = tagallLastRun
  /\ tagallLastRun' # tagallLastRun =>
       \E inv \in Invs :
         /\ FirstSend(inv)
         /\ \A c \in Chats : c # handler'[inv].chat => tagallLastRun'[c] = tagallLastRun[c]

C19_Refused(inv) ==
  (\E k \in 1..Len(replies) : replies[k].inv = inv /\ replies[k].kind \in C19_Refusals)
    => SentBy(inv) = <<>>

C19_WrittenOnAdmission ==
  /\ [](\A inv \in Invs : C19_Refused(inv))
  /\ [][C19_Frame]_vars

\* a dispatch was admitted in g2 and the entry of g1, half a second older than
\* the start, still stands
C19_Witness ==
  \E inv \in Invs :
    /\ handler[inv].chat = "g2"
    /\ SentBy(inv) # <<>>
    /\ tagallLastRun["g2"] >= StartMs
    /\ tagallLastRun["g1"] = EarlierRunMs
    /\ tagallLastRun["p1"] = 0

----------------------------------------------------------------------------
\* C20: with two handlers interleaved in different chats, whether an
\* invocation is admitted depends on the cooldown entry of its own chat
\* alone, and a step of the handler of one chat (its stamp, its back-off,
\* its abort) changes neither the entry, the roster, the sends nor the
\* handler of the other chat; a handler that sleeps does not hold up the
\* other one.
C20_Permitted(inv) ==
  \/ chat_settings[handler'[inv].chat] = "0"
  \/ handler'[inv].role \in {"administrator", "creator"}

C20_Decision(inv) ==
  LET c == handler'[inv].chat
  IN  (GateStep(inv) /\ handler'[inv].type # "none" /\ handler'[inv].target # 0
       /\ C20_Permitted(inv)) =>
        /\ NewReply(inv, {"cooldown"}) <=> ~WindowOpen(c)
        /\ (WindowOpen(c) /\ ResolvedSet(inv)' # {}) => FirstSend(inv)

C20_Frame(a, b) ==
  (/\ a # b
   /\ handler'[a] # handler[a]
   /\ handler[b].chat \in Chats
   /\ handler'[a].chat # handler[b].chat) =>
     /\ handler'[b] = handler[b]
     /\ SentBy(b)' = SentBy(b)
     /\ RepliesBy(b)' = RepliesBy(b)
     /\ tagallLastRun'[handler[b].chat] = tagallLastRun[handler[b].chat]
     /\ chat_members'[handler[b].chat] = chat_members[handler[b].chat]

C20_NotHeldUp(a, b) ==
  (a # b /\ handler[a].pc = "sleep") =>
     /\ handler[b].pc = "send" => ENABLED SendOk(b)
     /\ handler[b].pc = "reply" => ENABLED ReplyReturns(b, TRUE)
     /\ handler[b].pc = "isAdmin" => ENABLED IsAdminReturns(b, "administrator")
     /\ (handler[b].pc = "sleep" /\ now - handler[b].since >= handler[b].ms) => ENABLED Wake(b)

C20_Independent ==
  /\ [](\A a, b \in Invs : C20_NotHeldUp(a, b))
  /\ [][\A inv \in Invs : C20_Decision(inv)]_vars
  /\ [][\A a, b \in Invs : C20_Frame(a, b)]_vars

\* the dispatch in g1 was stamped and then aborted; the one in g2, admitted
\* within g1's cooldown window, delivered its chunk
C20_Witness ==
  \E a, b \in Invs :
    /\ handler[a].chat = "g1" /\ handler[b].chat = "g2"
    /\ handler[a].outcome = "failed" /\ SentBy(a) # <<>>
    /\ handler[b].outcome = "completed"
    /\ Recipients(Delivered(b)) = <<1, 4>>
    /\ tagallLastRun["g1"] # 0
    /\ tagallLastRun["g2"] - tagallLastRun["g1"] \in 0..(CooldownMs - 1)

----------------------------------------------------------------------------
\* C21, as stated: the chunks of two dispatches of one chat never interleave;
\* a dispatch issues its first send only when every other dispatch of the
\* chat has ended.
C21_InFlight(inv) == SentBy(inv) # <<>> /\ handler[inv].pc # "done"

C21_Serialized ==
  \A a, b \in Invs :
    (a # b /\ handler[a].chat = handler[b].chat) =>
      ~ \E i, j, k \in 1..Len(sent) :
          i < j /\ j < k /\ sent[i].inv = a /\ sent[j].inv = b /\ sent[k].inv = a

\* C21, amended: the cooldown spaces admissions, not dispatches.  A dispatch
\* issues its first send while another dispatch of the chat is still in
\* flight only when a full cooldown has passed since that one was admitted;
\* inside the window the chunks of a chat all belong to one dispatch.
C21_Overtake(a, b) ==
  (/\ a # b
   /\ C21_InFlight(a)
   /\ FirstSend(b)
   /\ handler'[b].chat = handler[a].chat) =>
     /\ tagallLastRun[handler[a].chat] # 0
     /\ now - tagallLastRun[handler[a].chat] >= CooldownMs

C21_SpacedAdmissions == [][\A a, b \in Invs : C21_Overtake(a, b)]_vars

\* the second dispatch sent its chunk between the two chunks of the first,
\* which was sleeping out its pacing delay when the window ended
C21_Witness ==
  \E a, b \in Invs :
    /\ a # b /\ handler[a].chat = handler[b].chat
    /\ \E i, j, k \in 1..Len(sent) :
         /\ i < j /\ j < k
         /\ sent[i].inv = a /\ sent[j].inv = b /\ sent[k].inv = a
         /\ sent[i].i = 0 /\ sent[j].i = 0 /\ sent[k].i = 1

----------------------------------------------------------------------------
\* Progress of one dispatch.  The timer of sleep(ms) (bot.js:172-174) runs
\* as long as a handler waits on it, whatever the time of day.
TimerRuns ==
  /\ \E inv \in Invs :
       /\ handler[inv].pc = "sleep"
       /\ now - handler[inv].since < handler[inv].ms
  /\ now' = now + TickMs
  /\ UNCHANGED <<storeVars, tagallLastRun, handler, sent, replies>>
  /\ UNCHANGED menuVars

NextLive ==
  \/ Steps(Solo, {"g1"}, {1}, {"tagall", "Friends"}, ReplyShapes, {"administrator"})
  \/ TimerRuns

\* the transport answers every sendMessage and every reply, a timer that is
\* due fires, and time passes while a handler sleeps; a chunk is throttled
\* at most MaxThrottle times (guard of SendFails)
Live ==
  /\ WF_vars(TimerRuns)
  /\ \A inv \in Solo :
       /\ WF_vars(Wake(inv))
       /\ WF_vars(SendOk(inv) \/ \E e \in TransportErrors : SendFails(inv, e))
       /\ WF_vars(\E ok \in BOOLEAN : ReplyReturns(inv, ok))

SpecLive == Init /\ [][NextLive]_vars /\ Live

\* C22: every admitted dispatch ends: the handler returns after every chunk
\* of the resolved list was delivered, or after a send failed with an error
\* that is no throttle answer; a throttled chunk is retried however often
\* it was throttled before.
C22_Finished(inv) ==
  LET log == SentBy(inv)
      n == Len(Chunks(handler[inv].members))
  IN  /\ handler[inv].pc = "done"
      /\ log # <<>>
      /\ \/ /\ handler[inv].outcome = "completed"
            /\ \A b \in 0..(n - 1) : \E k \in 1..Len(log) : log[k].i = b /\ log[k].res = "ok"
         \/ /\ handler[inv].outcome = "failed"
            /\ Errored(log[Len(log)])

C22_Terminates ==
  \A inv \in Solo : (SentBy(inv) # <<>>) ~> C22_Finished(inv)

\* a dispatch of two chunks returned after a throttle answer and a pacing
\* sleep that both outlasted the clock of the other specifications
C22_Witness ==
  \E inv \in Solo :
    /\ C22_Finished(inv)
    /\ handler[inv].outcome = "completed"
    /\ \E k \in 1..Len(sent) : Throttled(sent[k])
    /\ now > StartMs + MaxTicks * TickMs

----------------------------------------------------------------------------
\* C23: no failure leaves the handler of a tag-command invocation: a reply
\* or a send that failed for good is followed by the failure reply to the
\* chat, and the handler returns normally.
C23_AllCaught ==
  \A inv \in Invs :
    /\ handler[inv].outcome # "escaped"
    /\ handler[inv].pc = "done" =>
         /\ (\E k \in 1..Len(sent) : sent[k].inv = inv /\ Errored(sent[k]))
              => \E j \in 1..Len(replies) : replies[j].inv = inv /\ replies[j].kind = "failure"
         /\ (\E k \in 1..Len(replies) :
               replies[k].inv = inv /\ replies[k].kind # "failure" /\ replies[k].res = "failed")
              => \E j \in 1..Len(replies) : replies[j].inv = inv /\ replies[j].kind = "failure"

----------------------------------------------------------------------------
\* C24: every chunk of a team dispatch, the first and the later ones and a
\* chunk sent again after a throttle answer, carries the trailing line with
\* the name of the team, first letter in upper case and the rest in lower
\* case.
C24_TrailingLine ==
  /\ \A k \in 1..Len(sent) :
       sent[k].team = "friends" =>
         TextOf(sent[k]).suffix = <<"F", "r", "i", "e", "n", "d", "s">>
  /\ teamLabelForMessage(<<"m", "i", "X", "e", "d">>) = <<"M", "i", "x", "e", "d">>
  /\ teamLabelForMessage(<<"q", "a", "_", "1">>) = <<"Q", "a", "_", "1">>

\* the second chunk of a team dispatch is out, after the first was throttled
C24_Witness ==
  \E k \in 1..Len(sent) :
    /\ sent[k].team = "friends"
    /\ sent[k].i = 1
    /\ TextOf(sent[k]).suffix = <<"F", "r", "i", "e", "n", "d", "s">>
    /\ \E j \in 1..(k - 1) : sent[j].inv = sent[k].inv /\ Throttled(sent[j])

----------------------------------------------------------------------------
\* A roster that grows: users 3 and 2 join chat g1 in one update and get the
\* same first_seen; users 1 and 3 invoke /tagall and /Friends.
NextRoster ==
  \/ Steps(Solo, {"g1"}, {1, 3}, {"tagall", "Friends"}, ReplyShapes, {"administrator"})
  \/ new_chat_members("g1", 1, <<3, 2>>)

InitRoster ==
  /\ now = StartMs
  /\ tagallLastRun = [c \in Chats |-> 0]
  /\ chat_members = [c \in Chats |-> IF c = "g1" THEN <<Row(1, 1)>> ELSE <<>>]
  /\ chat_settings = [c \in Chats |-> "1"]
  /\ chat_teams = {<<"g1", "friends">>}
  /\ chat_team_members = {<<"g1", "friends", 2>>, <<"g1", "friends", 3>>}
  /\ handler = [inv \in Invs |-> Idle]
  /\ sent = <<>>
  /\ replies = <<>>
  /\ adminInputState = {}
  /\ admins = {}
  /\ answered = "-"
  /\ env = ModelEnv

SpecRoster == InitRoster /\ [][NextRoster]_vars

\* C25: the recipient list of a chat and command is the same before and
\* after every step that adds no roster row and changes no team row, also
\* when the step is an observation that moves last_seen and when rows share
\* their first_seen; and the list a dispatch sends to is the list resolved
\* from the store of that step.
C25_Keys(rows) == [k \in 1..Len(rows) |-> [rows[k] EXCEPT !.last_seen = 0]]

C25_Resolve(cm, tm, c, type, slug) ==
  IF type = "tagall" THEN selectMembers(cm, c, MAX_USERS)
  ELSE selectTeamMembers(cm, tm, c, slug)

C25_Repeatable(c) ==
  (/\ C25_Keys(chat_members'[c]) = C25_Keys(chat_members[c])
   /\ chat_team_members' = chat_team_members)
  => \A type \in {"tagall", "team"} :
       C25_Resolve(chat_members', chat_team_members', c, type, "friends")
         = C25_Resolve(chat_members, chat_team_members, c, type, "friends")

C25_Resolved(inv) ==
  FirstSend(inv) =>
    handler'[inv].members =
      C25_Resolve(chat_members', chat_team_members', handler'[inv].chat,
                  handler'[inv].type, handler'[inv].slug)

----------------------------------------------------------------------------
\* C26: displayName is the first and the last name joined by one space and
\* trimmed when that is not empty, else "@" and the username when there is
\* one, else "id:" and the user id; for every combination of absent, empty,
\* blank and ordinary name fields, and in the link text of every mention sent.
C26_Names == {Null, <<>>, <<" ">>, <<"A">>, <<" ", "A", " ">>, <<"A", " ", "B">>}

C26_Users ==
  [user_id : {4, 120}, first_name : C26_Names, last_name : C26_Names,
   username : {Null, <<"b", "o", "b">>}]

C26_Text(v) == IF v = Null THEN <<>> ELSE v

C26_Expected(u) ==
  LET joined == Trim(C26_Text(u.first_name) \o <<" ">> \o C26_Text(u.last_name))
  IN  IF joined # <<>> THEN joined
      ELSE IF u.username # Null THEN <<"@">> \o u.username
      ELSE IF u.user_id = 4 THEN <<"i", "d", ":", "4">>
      ELSE <<"i", "d", ":", "1", "2", "0">>

C26_EveryUser == \A u \in C26_Users : displayName(u) = C26_Expected(u)

C26_DisplayName ==
  /\ C26_EveryUser
  /\ \A k \in 1..Len(sent) :
       \A m \in 1..Len(sent[k].users) :
         /\ TextOf(sent[k]).mentions[m].id = sent[k].users[m]
         /\ sent[k].users[m] \in {3, 4} =>
              TextOf(sent[k]).mentions[m].label = C26_Expected(MemberRow(sent[k].users[m]))

\* a chunk went out that names user 3, whose first name is blank, by the
\* username and user 4, who has neither name nor username, by the id
C26_Witness ==
  \E k \in 1..Len(sent) :
    /\ sent[k].users = <<3, 4>>
    /\ TextOf(sent[k]).mentions[1].label = <<"@", "c", "_", "d">>
    /\ TextOf(sent[k]).mentions[2].label = <<"i", "d", ":", "4">>
    /\ sent[k].res = "ok"

----------------------------------------------------------------------------
\* C27: the link text of every mention and the label of the trailing line
\* hold no "<", ">" or double quote, and every "&" in them starts one of the
\* four entities; this holds for every string over the special characters
\* up to length C27_MaxLen and for every chunk sent, and the escaped text
\* read back as HTML is the display name.
C27_MaxLen == 3

C27_Entities ==
  {<<"&", "a", "m", "p", ";">>, <<"&", "l", "t", ";">>, <<"&", "g", "t", ";">>,
   <<"&", "q", "u", "o", "t", ";">>}

C27_Safe(s) ==
  \A k \in 1..Len(s) :
    /\ s[k] \notin {"<", ">", "\""}
    /\ s[k] = "&" =>
         \E e \in C27_Entities :
           k + Len(e) - 1 <= Len(s) /\ SubSeq(s, k, k + Len(e) - 1) = e

\* what an HTML parser reads: every entity stands for its character
RECURSIVE C27_Decode(_)
C27_Decode(s) ==
  IF s = <<>> THEN <<>>
  ELSE IF Len(s) >= 5 /\ SubSeq(s, 1, 5) = <<"&", "a", "m", "p", ";">>
       THEN <<"&">> \o C27_Decode(SubSeq(s, 6, Len(s)))
  ELSE IF Len(s) >= 4 /\ SubSeq(s, 1, 4) = <<"&", "l", "t", ";">>
       THEN <<"<">> \o C27_Decode(SubSeq(s, 5, Len(s)))
  ELSE IF Len(s) >= 4 /\ SubSeq(s, 1, 4) = <<"&", "g", "t", ";">>
       THEN <<">">> \o C27_Decode(SubSeq(s, 5, Len(s)))
  ELSE IF Len(s) >= 6 /\ SubSeq(s, 1, 6) = <<"&", "q", "u", "o", "t", ";">>
       THEN <<"\"">> \o C27_Decode(SubSeq(s, 7, Len(s)))
  ELSE <<Head(s)>> \o C27_Decode(Tail(s))

C27_Strings ==
  UNION {[1..n -> {"&", "<", ">", "\"", "l", "t", ";"}] : n \in 0..C27_MaxLen}

C27_EveryString ==
  \A s \in C27_Strings : C27_Safe(escapeHtml(s)) /\ C27_Decode(escapeHtml(s)) = s

C27_Escaped ==
  /\ C27_EveryString
  /\ \A k \in 1..Len(sent) :
       /\ C27_Safe(TextOf(sent[k]).suffix)
       /\ \A m \in 1..Len(TextOf(sent[k]).mentions) :
            /\ C27_Safe(TextOf(sent[k]).mentions[m].label)
            /\ C27_Decode(TextOf(sent[k]).mentions[m].label)
                 = displayName(MemberRow(sent[k].users[m]))

\* a chunk went out whose mention of user 2 was stored with the first name
\* "<b>"
C27_Witness ==
  \E k \in 1..Len(sent) :
    /\ sent[k].users = <<1, 2>>
    /\ TextOf(sent[k]).mentions[2].label = <<"&", "l", "t", ";", "b", "&", "g", "t", ";">>
    /\ sent[k].res = "ok"

----------------------------------------------------------------------------
\* C28: the checks run in the order chat type, permission, cooldown.  In a
\* chat that is no group nothing is looked up or answered; an invoker who is
\* no administrator of a restricted chat gets the permission refusal whether
\* or not the cooldown window is open; the cooldown refusal is given only to
\* an invoker who passed the permission check; recipients are resolved
\* (chunk sent, or nothing-to-mention reply) only in a group, for a permitted
\* invoker, with the window open.
C28_Permitted(h) ==
  IF h.restricted THEN h.role \in {"administrator", "creator"} ELSE h.role = "-"

C28_Gate(inv) ==
  LET h == handler'[inv]
  IN  GateStep(inv) =>
        /\ ~isGroupChat(h.chat) =>
             /\ h.pc = "done" /\ h.outcome = "next"
             /\ replies' = replies /\ sent' = sent
        /\ (h.role \notin {"-", "administrator", "creator"}) => NewReply(inv, {"permission"})
        /\ NewReply(inv, {"permission"}) => h.restricted /\ ~C28_Permitted(h)
        /\ NewReply(inv, {"cooldown"}) =>
             isGroupChat(h.chat) /\ C28_Permitted(h) /\ ~WindowOpen(h.chat)
        /\ (NewReply(inv, {"no_members", "team_empty"}) \/ FirstSend(inv)) =>
             isGroupChat(h.chat) /\ C28_Permitted(h) /\ WindowOpen(h.chat)

C28_CheckOrder ==
  /\ [][\A inv \in Invs : C28_Gate(inv)]_vars
  /\ [](\A inv \in Invs : handler[inv].pc = "isAdmin" => isGroupChat(handler[inv].chat))

\* a member of a restricted chat was refused for permission while the
\* cooldown window of the chat was closed
C28_Witness ==
  \E inv \in Invs :
    /\ handler[inv].pc = "reply"
    /\ handler[inv].role = "member"
    /\ handler[inv].restricted
    /\ ~WindowOpen(handler[inv].chat)
    /\ RepliesBy(inv)[1].kind = "permission"

----------------------------------------------------------------------------
\* C29: a chat has at most one roster row per user; a step never removes a
\* row, never changes the user or the first_seen of a row and never lowers
\* its last_seen; so two users that are on the roster keep their relative
\* order in the roster query.
C29_OneRowPerUser ==
  \A c \in Chats :
    \A i, j \in 1..Len(chat_members[c]) :
      chat_members[c][i].user_id = chat_members[c][j].user_id => i = j

C29_RowsKept(c) ==
  LET old == chat_members[c]
      new == chat_members'[c]
      Known(r) == HasRow(old, r.user_id)
  IN  /\ Len(new) >= Len(old)
      /\ \A k \in 1..Len(old) :
           /\ new[k].user_id = old[k].user_id
           /\ new[k].first_seen = old[k].first_seen
           /\ new[k].last_seen >= old[k].last_seen
      /\ UserIds(SelectSeq(OrderByFirstSeen(new), Known)) = UserIds(OrderByFirstSeen(old))

C29_RosterRows ==
  /\ []C29_OneRowPerUser
  /\ [][\A c \in Chats : C29_RowsKept(c)]_vars

\* user 3 wrote before joining with user 2: the row made by the message kept
\* its first_seen, the join moved its last_seen and added the row of user 2
C29_Witness ==
  LET rows == chat_members["g1"]
  IN  /\ Len(rows) = 3
      /\ rows[2].user_id = 3 /\ rows[3].user_id = 2
      /\ rows[2].first_seen >= StartMs
      /\ rows[2].last_seen > rows[2].first_seen
      /\ rows[3].first_seen = rows[2].last_seen

----------------------------------------------------------------------------
\* The admin menu of chat g1, used by user 1, who starts as administrator and
\* may lose and regain the right; texts are sent in the group or in the
\* private chat with the bot.
MenuUser == 1

NextAdmin ==
  \/ promote("g1", MenuUser)
  \/ demote("g1", MenuUser)
  \/ \E status \in {getChatMember(admins, "g1", MenuUser), "error"} :
       \/ \E who \in {"admins", "all"} : adm_who("g1", who, status)
       \/ adm_new("g1", MenuUser, status)
       \/ \E slug \in {"friends", "crew"} :
            \/ adm_ren("g1", MenuUser, slug, status)
            \/ adm_delok("g1", slug, status)
            \/ adm_a1("g1", slug, 5, status)
            \/ adm_r1("g1", slug, 5, status)
  \/ adm_cn(MenuUser)
  \/ adm_cr(MenuUser)
  \/ \E chat \in {"g1", "p1"}, raw \in {"/crew@a_bot", " friends ", "no good"} :
       adminInput(chat, MenuUser, raw)

InitAdmin ==
  /\ now = StartMs
  /\ tagallLastRun = [c \in Chats |-> 0]
  /\ chat_members = [c \in Chats |-> IF c = "g1" THEN <<Row(1, 1), Row(5, 2)>> ELSE <<>>]
  /\ chat_settings = [c \in Chats |-> "absent"]
  /\ chat_teams = {<<"g1", "friends">>}
  /\ chat_team_members = {}
  /\ handler = [inv \in Invs |-> Idle]
  /\ sent = <<>>
  /\ replies = <<>>
  /\ adminInputState = {}
  /\ admins = {<<"g1", MenuUser>>}
  /\ answered = "-"
  /\ env = ModelEnv

SpecAdmin == InitAdmin /\ [][NextAdmin]_vars

\* C30: a step that changes the teams, the team members or the setting of a
\* chat is taken only while the acting user is administrator of that chat.
C30_Written(c) ==
  \/ {t \in chat_teams' : t[1] = c} # {t \in chat_teams : t[1] = c}
  \/ {m \in chat_team_members' : m[1] = c} # {m \in chat_team_members : m[1] = c}
  \/ chat_settings'[c] # chat_settings[c]

C30_AdminAtWrite ==
  [][\A c \in Chats : C30_Written(c) => <<c, MenuUser>> \in admins]_vars

----------------------------------------------------------------------------
\* The team menu of one group: an administrator creates, renames and deletes
\* teams and adds and removes members.  The chat starts with the teams
\* friends and crew, so a button for either of them can be on a screen that
\* was rendered before the team was renamed or deleted.

TeamUsers == {1, 5}

NextMenu ==
  \/ adm_new("g1", MenuUser, "administrator")
  \/ \E slug \in {"friends", "crew"} :
       \/ adm_ren("g1", MenuUser, slug, "administrator")
       \/ adm_delok("g1", slug, "creator")
       \/ \E userId \in TeamUsers :
            \/ adm_a1("g1", slug, userId, "administrator")
            \/ adm_r1("g1", slug, userId, "administrator")
  \/ adm_cn(MenuUser)
  \/ adm_cr(MenuUser)
  \/ \E raw \in InputTexts : adminInput("g1", MenuUser, raw)

InitMenu ==
  /\ now = StartMs
  /\ tagallLastRun = [c \in Chats |-> 0]
  /\ chat_members = [c \in Chats |-> IF c = "g1" THEN <<Row(1, 1), Row(5, 2)>> ELSE <<>>]
  /\ chat_settings = [c \in Chats |-> "absent"]
  /\ chat_teams = {<<"g1", "friends">>, <<"g1", "crew">>}
  /\ chat_team_members = {}
  /\ handler = [inv \in Invs |-> Idle]
  /\ sent = <<>>
  /\ replies = <<>>
  /\ adminInputState = {}
  /\ admins = {<<"g1", MenuUser>>}
  /\ answered = "-"
  /\ env = ModelEnv

SpecMenu == InitMenu /\ [][NextMenu]_vars

----------------------------------------------------------------------------
\* C31: a step that deletes a team removes the row of that team and every
\* membership row of it, and leaves the roster, the settings, every other
\* team and the membership rows of every other team as they were.
C31_DeleteFrame ==
  [][(chat_teams' \subseteq chat_teams /\ chat_teams' # chat_teams) =>
       \E t \in chat_teams :
         /\ chat_teams' = chat_teams \ {t}
         /\ chat_team_members' =
              {m \in chat_team_members : <<m[1], m[2]>> # t}
         /\ UNCHANGED <<chat_members, chat_settings>>]_vars

\* friends was deleted with its rows; crew kept both of its members and the
\* roster kept its two rows
C31_Witness ==
  /\ chat_teams = {<<"g1", "crew">>}
  /\ chat_team_members = {<<"g1", "crew", 1>>, <<"g1", "crew", 5>>}
  /\ Len(chat_members["g1"]) = 2
  /\ answered = "Dobavlen"

----------------------------------------------------------------------------
\* the users with a membership row for slug in chat chatId
TeamOf(tm, chatId, slug) == {m[3] : m \in {r \in tm : r[1] = chatId /\ r[2] = slug}}

\* C32: a step that renames team A of a chat to the unused slug B leaves B
\* with exactly the members A had and leaves no membership row of A.
C32_RenameMoves ==
  [][\A a \in chat_teams, b \in chat_teams' :
       (a[1] = b[1] /\ b \notin chat_teams /\ chat_teams' = (chat_teams \ {a}) \cup {b}) =>
         /\ TeamOf(chat_team_members', b[1], b[2]) = TeamOf(chat_team_members, a[1], a[2])
         /\ TeamOf(chat_team_members', a[1], a[2]) = {}]_vars

----------------------------------------------------------------------------
\* C33: the add button pressed for a user who is a member of the team changes
\* no membership row, the row of (chat, slug, user) is still there, and the
\* admin gets the same answer as for a first add: nothing thrown by the
\* insert reaches them.
C33_AddTwice ==
  [][\A slug \in {"friends", "crew"}, userId \in TeamUsers :
       (/\ <<"g1", slug, userId>> \in chat_team_members
        /\ adm_a1("g1", slug, userId, "administrator")) =>
         /\ chat_team_members' = chat_team_members
         /\ <<"g1", slug, userId>> \in chat_team_members'
         /\ answered' = "Dobavlen"]_vars

\* user 5 is a member of friends and the latest add was answered
C33_Witness ==
  /\ <<"g1", "friends">> \in chat_teams
  /\ TeamOf(chat_team_members, "g1", "friends") = {5}
  /\ answered = "Dobavlen"

----------------------------------------------------------------------------
\* the text, as characters, is empty, too long, has a character outside
\* [A-Za-z0-9_] or is the slug of a team of the chat
C34_Refused(text, chatId) ==
  \/ text = <<>>
  \/ Len(text) > 32
  \/ \E k \in 1..Len(text) : ~IsWordChar(text[k])
  \/ \E t \in chat_teams : t[1] = chatId /\ TextChars(t[2]) = text

\* the text input of the sender's pending state, read as typed
C34_RawRejected ==
  [][\A raw \in InputTexts :
       (adminInput("g1", MenuUser, raw) /\ C34_Refused(TextChars(raw), "g1")) =>
         UNCHANGED <<chat_teams, chat_team_members>>]_vars

\* C34: every stored team slug is 1 to 32 characters of [A-Za-z0-9_], and a
\* text input that, once trimmed and stripped of leading slashes and of a
\* trailing @name, is empty, too long, has another character or is the slug
\* of a team of the chat changes no team row and no membership row; unless it
\* is the team's own name in a rename, the input stays pending.
C34_ValidSlugs ==
  /\ [](\A t \in chat_teams :
          LET slug == TextChars(t[2])
          IN  /\ Len(slug) \in 1..32
              /\ \A k \in 1..Len(slug) : IsWordChar(slug[k]))
  /\ [][\A raw \in InputTexts :
          LET text == normalizeTeamSlugInput(Trim(TextChars(raw)))
              state == adminInputGet(adminInputState, MenuUser)
          IN  (adminInput("g1", MenuUser, raw) /\ C34_Refused(text, "g1")) =>
                /\ UNCHANGED <<chat_teams, chat_team_members>>
                /\ (state.step = "rename_team" /\ TextChars(state.slug) = text)
                     \/ UNCHANGED adminInputState]_vars

\* the team Crew was created by a text input, and a message of the user was
\* taken while a rename of friends is awaited
C34_Witness ==
  /\ chat_teams = {<<"g1", "friends">>, <<"g1", "crew">>, <<"g1", "Crew">>}
  /\ adminInputGet(adminInputState, MenuUser).step = "rename_team"
  /\ chat_members["g1"][1].last_seen = StartMs

----------------------------------------------------------------------------
\* Teams whose names differ in letter case: in g1, with team crew of user 5,
\* an administrator creates teams and renames crew by text input and adds
\* user 1 to a team that is there, while user 1 sends a reply with the
\* command /Crew or /crew.  The setting of g1 is absent, which restricts the
\* command to administrators, and user 1 is one.

NextCase ==
  \/ Steps(Solo, {"g1"}, {1}, {"Crew", "crew"}, ReplyShapes, {"administrator"})
  \/ adm_new("g1", MenuUser, "administrator")
  \/ adm_ren("g1", MenuUser, "crew", "administrator")
  \/ \E raw \in {"Crew", "/crew@a_bot", "no good"} : adminInput("g1", MenuUser, raw)
  \/ \E slug \in {"crew", "Crew"} :
       /\ getTeam(chat_teams, "g1", slug)
       /\ adm_a1("g1", slug, 1, "administrator")

InitCase ==
  /\ now = StartMs
  /\ tagallLastRun = [c \in Chats |-> 0]
  /\ chat_members = [c \in Chats |-> IF c = "g1" THEN <<Row(1, 1), Row(5, 2)>> ELSE <<>>]
  /\ chat_settings = [c \in Chats |-> "absent"]
  /\ chat_teams = {<<"g1", "crew">>}
  /\ chat_team_members = {<<"g1", "crew", 5>>}
  /\ handler = [inv \in Invs |-> Idle]
  /\ sent = <<>>
  /\ replies = <<>>
  /\ adminInputState = {}
  /\ admins = {<<"g1", MenuUser>>}
  /\ answered = "-"
  /\ env = ModelEnv

SpecCase == InitCase /\ [][NextCase]_vars

\* the slugs of the teams of g1 that the word names when letter case is
\* ignored
C35_Named(word) == {t[2] : t \in {r \in chat_teams : r[1] = "g1" /\ Lower(r[2]) = Lower(word)}}

\* C35: a valid name that is not the slug of a team as written is taken for
\* a new team even when a team with the same letters in another case is
\* there; a command whose word names one or more teams without regard to
\* case is dispatched to one of them, a team of the chat, and its recipients
\* are the members of that one team.
C35_CaseLookup ==
  /\ [][\A raw \in {"Crew", "/crew@a_bot"} :
          LET text == Str(normalizeTeamSlugInput(Trim(TextChars(raw))))
          IN  (/\ adminInputGet(adminInputState, MenuUser).step = "new_team_slug"
               /\ <<"g1", text>> \notin chat_teams
               /\ adminInput("g1", MenuUser, raw)) =>
                chat_teams' = chat_teams \cup {<<"g1", text>>}]_vars
  /\ [][(handler[1].pc = "idle" /\ handler'[1].pc # "idle"
           /\ C35_Named(handler'[1].word) # {}) =>
          /\ handler'[1].type = "team"
          /\ handler'[1].slug \in C35_Named(handler'[1].word)]_vars
  /\ [][(handler[1].members = <<>> /\ handler'[1].members # <<>>) =>
          handler'[1].members =
            selectTeamMembers(chat_members', chat_team_members, "g1", handler'[1].slug)]_vars

\* crew and Crew are both teams of g1, with different members, and the
\* command /crew went to the members of Crew
C35_Witness ==
  /\ {<<"g1", "crew">>, <<"g1", "Crew">>} \subseteq chat_teams
  /\ handler[1].word = "crew"
  /\ handler[1].slug = "Crew"
  /\ sent # <<>>
  /\ sent[1].users = <<1>>
  /\ <<"g1", "crew", 1>> \notin chat_team_members

----------------------------------------------------------------------------
\* C36: every membership row names a team that has a row in the same chat.
C36_TeamExists ==
  \A m \in chat_team_members : <<m[1], m[2]>> \in chat_teams

----------------------------------------------------------------------------
\* A dispatch in g1 with the roster and the team changing under it: user 1
\* sends /tagall or /Friends as a reply while a user joins, an administrator
\* adds user 4 to friends and removes user 3 from it, deletes the team, or
\* user 2 renames it to crew by text input.  User 2 pressed the rename
\* button before the command; the other updates are taken while the dispatch
\* sleeps between two sends.

Sleeping == handler[1].pc = "sleep"

NextSleep ==
  \/ Steps(Solo, {"g1"}, {1}, {"tagall", "Friends"}, ReplyShapes, {"administrator"})
  \/ Sleeping /\ new_chat_members("g1", 3, <<4>>)
  \/ Sleeping /\ adm_a1("g1", "friends", 4, "administrator")
  \/ Sleeping /\ adm_r1("g1", "friends", 3, "administrator")
  \/ Sleeping /\ adm_delok("g1", "friends", "administrator")
  \/ Sleeping /\ adminInput("g1", 2, "/crew@a_bot")

InitSleep ==
  /\ now = StartMs
  /\ tagallLastRun = [c \in Chats |-> 0]
  /\ chat_members =
       [c \in Chats |-> IF c = "g1" THEN <<Row(1, 1), Row(2, 2), Row(3, 3)>> ELSE <<>>]
  /\ chat_settings = [c \in Chats |-> "absent"]
  /\ chat_teams = {<<"g1", "friends">>}
  /\ chat_team_members = {<<"g1", "friends", u>> : u \in {1, 2, 3}}
  /\ handler = [inv \in Invs |-> Idle]
  /\ sent = <<>>
  /\ replies = <<>>
  /\ adminInputState = adminInputSet({}, 2, "rename_team", "g1", "friends")
  /\ admins = {}
  /\ answered = "-"
  /\ env = ModelEnv

SpecSleep == InitSleep /\ [][NextSleep]_vars

\* C37: once the recipients of a dispatch are resolved, no step changes the
\* list, whatever happens to the roster and the teams, and every batch that
\* is sent, first or retried, is the batch of that index of that list.
C37_ListFixed ==
  /\ [][handler[1].members # <<>> => handler'[1].members = handler[1].members]_vars
  /\ [](\A k \in 1..Len(sent) :
          LET chunks == Chunks(handler[sent[k].inv].members)
          IN  /\ sent[k].i + 1 <= Len(chunks)
              /\ sent[k].users = chunks[sent[k].i + 1])

\* the team of the command was deleted or renamed and user 3 has no row in
\* it, yet the second batch of the /Friends dispatch is being sent to user 3
C37_Witness ==
  /\ handler[1].pc = "send"
  /\ handler[1].slug = "friends"
  /\ handler[1].i = 1
  /\ <<"g1", "friends">> \notin chat_teams
  /\ TeamOf(chat_team_members, "g1", "friends") = {}
  /\ sent[Len(sent)].users = <<3>>
  /\ sent[Len(sent)].res = "pending"

----------------------------------------------------------------------------
\* A pending input and a tag command of the same user: user 1 presses the
\* new-team or the rename button of g1, or cancels, and sends messages in the
\* group and in the private chat: the texts "/tagall", " friends " and
\* "no good", and then /tagall in the group as a reply, with further text, as
\* the caption of a photo or bare.

NoneStarted == handler[1].pc = "idle"

NextInput ==
  \/ Steps(Solo, {"g1"}, {1}, {"tagall"}, BranchShapes, {"administrator"})
  \/ NoneStarted /\ adm_new("g1", 1, "administrator")
  \/ NoneStarted /\ adm_ren("g1", 1, "friends", "administrator")
  \/ NoneStarted /\ adm_cn(1)
  \/ /\ NoneStarted
     /\ \E chat \in {"g1", "p1"}, raw \in {"/tagall", " friends ", "no good"} :
          adminInput(chat, 1, raw)

InitInput ==
  /\ now = StartMs
  /\ tagallLastRun = [c \in Chats |-> 0]
  /\ chat_members =
       [c \in Chats |-> IF c = "g1" THEN <<Row(1, 1), Row(2, 2), Row(3, 3)>> ELSE <<>>]
  /\ chat_settings = [c \in Chats |-> "absent"]
  /\ chat_teams = {<<"g1", "friends">>}
  /\ chat_team_members = {<<"g1", "friends", 2>>, <<"g1", "friends", 3>>}
  /\ handler = [inv \in Invs |-> Idle]
  /\ sent = <<>>
  /\ replies = <<>>
  /\ adminInputState = {}
  /\ admins = {<<"g1", 1>>}
  /\ answered = "-"
  /\ env = ModelEnv

SpecInput == InitInput /\ [][NextInput]_vars

\* C38: while user 1 has a pending input, a step that starts the dispatch
\* handler for a message of user 1 is taken for a message without text (the
\* command is a caption); a text message is a step of the input handler: it
\* starts no handler and adds no send and no reply to the logs, and the team
\* rows it writes are rows of the chat of the pending input, whatever chat
\* the message came from.
C38_Consumed ==
  /\ [][(adminInputGet(adminInputState, 1) # NoInput
           /\ handler[1].pc = "idle" /\ handler'[1].pc # "idle") =>
          handler'[1].msg.media]_vars
  /\ [][\A chat \in {"g1", "p1"}, raw \in {"/tagall", " friends ", "no good"} :
          adminInput(chat, 1, raw) =>
            /\ handler' = handler /\ sent' = sent /\ replies' = replies
            /\ \A t \in (chat_teams' \ chat_teams) \cup (chat_teams \ chat_teams') :
                 t[1] = adminInputGet(adminInputState, 1).chatId]_vars

\* the text "/tagall", sent while the new-team input of g1 was pending, made
\* the team tagall of g1; user 1 wrote in the private chat too, no handler
\* was started and nothing was sent
C38_Witness ==
  /\ <<"g1", "tagall">> \in chat_teams
  /\ chat_members["p1"] # <<>>
  /\ handler[1].pc = "idle"
  /\ sent = <<>>
  /\ adminInputState = {}

----------------------------------------------------------------------------
\* C39: a failed send is followed by the back-off sleep exactly when its
\* error carries a retry_after other than 0; when retry_after is missing or
\* 0 the handler sends the failure reply instead, and the log holds no later
\* send of that dispatch: the batch is not sent again and no further batch
\* is sent.
C39_ThrottleNonZero ==
  /\ [][\A e \in TransportErrors :
          SendFails(1, e) =>
            IF e.has_retry_after /\ e.retry_after # 0
            THEN /\ handler'[1].pc = "sleep"
                 /\ handler'[1].sleep = "backoff"
                 /\ replies' = replies
            ELSE /\ handler'[1].pc = "reply"
                 /\ Len(replies') = Len(replies) + 1
                 /\ replies'[Len(replies')].kind = "failure"]_vars
  /\ [](\A k \in 1..Len(sent) :
          (sent[k].res = "fail" /\ sent[k].retry_after = 0) =>
            \A j \in (k + 1)..Len(sent) : sent[j].inv # sent[k].inv)

\* the first batch failed without a retry_after to wait for; it is the only
\* send of the dispatch, which ended with the failure reply
C39_Witness ==
  /\ Len(sent) = 1
  /\ sent[1].i = 0
  /\ sent[1].res = "fail"
  /\ sent[1].retry_after = 0
  /\ handler[1].pc = "done"
  /\ handler[1].outcome = "failed"
  /\ replies # <<>>
  /\ replies[Len(replies)].kind = "failure"

----------------------------------------------------------------------------
\* The configuration read from the environment: the process starts with any
\* of the texts in TAGALL_COOLDOWN_SEC and TAGALL_DELAY_MS, and /tagall is
\* sent in g1 again and again while the clock runs.  An invocation is taken
\* from the cooldown check to the pacing sleep after its first batch
\* (bot.js:362-385, 1110) with the configuration that env gives.

MaxInvocations == 3

Invoke(chat) ==
  LET waitSec == checkCooldownOf(ConfigCooldownSec(env), tagallLastRun, chat, now)
  IN  /\ Len(replies) + Len(sent) < MaxInvocations
      /\ IF ~waitSec.null
         THEN /\ replies' = Append(replies,
                   [inv |-> 1, chat |-> chat, kind |-> "cooldown",
                    waitSec |-> waitSec.waitSec, res |-> "ok"])
              /\ UNCHANGED <<tagallLastRun, handler, sent>>
         ELSE /\ tagallLastRun' = setCooldown(tagallLastRun, chat, now)
              /\ sent' = Append(sent, [inv |-> 1, chat |-> chat, i |-> 0, res |-> "ok"])
              /\ handler' = [handler EXCEPT ![1] =
                    [Idle EXCEPT !.pc = "sleep", !.chat = chat, !.sleep = "pacing",
                                 !.since = now, !.ms = ConfigDelayMs(env)]]
              /\ UNCHANGED replies
      /\ UNCHANGED <<now, storeVars, menuVars>>

NextConfig == Invoke("g1") \/ Tick

InitConfig ==
  /\ now = StartMs
  /\ tagallLastRun = [c \in Chats |-> 0]
  /\ chat_members =
       [c \in Chats |-> IF c = "g1" THEN <<Row(1, 1), Row(2, 2), Row(3, 3)>> ELSE <<>>]
  /\ chat_settings = [c \in Chats |-> "0"]
  /\ chat_teams = {}
  /\ chat_team_members = {}
  /\ handler = [inv \in Invs |-> Idle]
  /\ sent = <<>>
  /\ replies = <<>>
  /\ adminInputState = {}
  /\ admins = {}
  /\ answered = "-"
  /\ env \in [TAGALL_COOLDOWN_SEC : EnvTexts, TAGALL_DELAY_MS : EnvTexts]

SpecConfig == InitConfig /\ [][NextConfig]_vars

\* C40: with TAGALL_COOLDOWN_SEC = 0 the cooldown in force is 0 seconds and
\* no invocation is answered with the cooldown reply; with TAGALL_DELAY_MS = 0
\* the pacing sleep is 0 ms.
C40_ZeroDisables ==
  /\ env.TAGALL_COOLDOWN_SEC = "0" =>
       /\ ConfigCooldownSec(env) = 0
       /\ \A k \in 1..Len(replies) : replies[k].kind # "cooldown"
  /\ env.TAGALL_DELAY_MS = "0" =>
       /\ ConfigDelayMs(env) = 0
       /\ handler[1].pc = "sleep" => handler[1].ms = 0

====
